---- MODULE Spec2Model ----
(***************************************************************************)
(* A state-machine model of amphis, a key-value store made of an          *)
(* in-memory fingerprinted B+-tree (FPTree) whose leaves live in a         *)
(* memory-mapped leaf file, a manager holding the current tree and the     *)
(* tree that replaces it during a flush, a flush writer that turns a       *)
(* frozen tree into a sorted table file, and a table manager that answers  *)
(* reads from the tables, newest first.                                    *)
(*                                                                         *)
(* Sizes are counted in alignment units (DATA_ALIGNMENT bytes): outside    *)
(* SpecExt every record is smaller than one unit, so each record occupies  *)
(* exactly one unit of a leaf page.  Keys are the integers 1..NumKeys,     *)
(* values are positive integers, and the empty value (a tombstone) is 0.   *)
(*                                                                         *)
(* Spec is the store used by one client, with the flush cycle run inside   *)
(* KVS::put and the startup flush of KVS::new.  SpecConc is one handle     *)
(* shared by client threads, with the flush cycle run by the worker        *)
(* thread of flush_writer.rs on the TryFlush signals of the puts.          *)
(* SpecTree grows one tree by puts and deletes over a larger key set, so   *)
(* that inner nodes and the root split repeatedly.  SpecExt follows one    *)
(* leaf through puts of pairs of several units, with extension pages.      *)
(***************************************************************************)
EXTENDS Integers, Sequences, FiniteSets, TLC

\* ---------------------------------------------------------------------
\* Bounds of the model (the source values are given for comparison)
\* ---------------------------------------------------------------------
\* number of distinct keys the clients use
NumKeys == 3
\* number of client mutations in one run
MaxOps == 5
\* number of times the store is closed and opened again in one run
MaxReopen == 1
\* number of I/O errors and of corrupted headers in one run
MaxFault == 1
\* slots of a leaf (32 in the source)
NUM_SLOT == 2
\* pages a leaf file grows by (16 in the source)
NUM_ALLOCATION == 2
\* separators an inner node holds before it splits (3 in the source)
FANOUT == 1
\* root splits after which a tree is flushed (default 6 in the source)
root_split_threshold == 1
\* range of the one-byte key hash (256 in the source)
HashRange == 2
\* bytes between two entries of a sparse index (1 << 18 in the source)
LEAST_OFFSET == 30
\* client threads sharing one handle
NumThreads == 2
\* writes made by the client threads together
MaxConcOps == 4
\* gets started by the client threads together
MaxGets == 1
\* puts made on the leaf with extension pages
MaxExtPuts == 3
\* keys and writes of the runs that grow one tree
NumTreeKeys == 5
MaxTreeOps == 5

\* ---------------------------------------------------------------------
\* Constants of the program
\* ---------------------------------------------------------------------
HEADER_MAGIC == 4660
\* bytes added to a key and to a value by the length and CRC fields
LEN_REDUNDANCY == 8
INITIAL_TAIL_OFFSET == 1
\* u32::MAX in the source: the "no next leaf" marker of a header
INVALID_LEAF_ID == 0 - 1
\* a leaf page is 64 alignment units for 32 slots
LEAF_SIZE == 2 * NUM_SLOT
RECLAMATION_THRESHOLD == LEAF_SIZE \div 2

Keys == 1..NumKeys
Slots == 0..(NUM_SLOT - 1)
\* absence of a key / of a value / of a node in an Option
NoKey == 0 - 1
NoValue == 0 - 1
NoNode == 1 - 1
\* a result that is a panic of the calling thread
Panic == 0 - 2
\* usize::MAX, the prev_offset of an empty sparse index
NoOffset == 0 - 1

\* every key of the model is one byte long, every non-empty value one byte
KeyLen(key) == 1
ValueLen(value) == IF value = 0 THEN 0 ELSE 1
get_data_size(key_size, value_size) == key_size + value_size + LEN_REDUNDANCY * 2

SetMin(S) == CHOOSE x \in S : \A y \in S : x <= y
SetMax(S) == CHOOSE x \in S : \A y \in S : y <= x

\* ---------------------------------------------------------------------
\* LeafHeader
\* ---------------------------------------------------------------------
\* A header holds the slot bitmap, the id of the next leaf page, the tail
\* offset of the page's data area, and per set slot the key fingerprint and
\* the place of the record.  Fingerprint and place of a clear slot are never
\* read by the program and are not kept.
LeafHeaderNew ==
    [ magic |-> HEADER_MAGIC, crc_ok |-> TRUE, bitmap |-> {},
      next |-> INVALID_LEAF_ID, ext |-> INVALID_LEAF_ID,
      tail_offset |-> INITIAL_TAIL_OFFSET,
      fingerprints |-> [s \in {} |-> 0], kv_info |-> [s \in {} |-> 0] ]

\* the header read from a page that was never written: all bytes zero
ZeroHeader ==
    [ magic |-> 0, crc_ok |-> FALSE, bitmap |-> {}, next |-> 0, ext |-> 0,
      tail_offset |-> 0,
      fingerprints |-> [s \in {} |-> 0], kv_info |-> [s \in {} |-> 0] ]

is_slot_set(h, slot) == slot \in h.bitmap

set_slot(h, slot, fp, info, tail) ==
    [ h EXCEPT !.bitmap = @ \cup {slot},
               !.tail_offset = tail,
               !.fingerprints = [s \in h.bitmap \cup {slot} |->
                                    IF s = slot THEN fp ELSE h.fingerprints[s]],
               !.kv_info = [s \in h.bitmap \cup {slot} |->
                                    IF s = slot THEN info ELSE h.kv_info[s]] ]

unset_slot(h, slot) ==
    [ h EXCEPT !.bitmap = @ \ {slot},
               !.fingerprints = [s \in h.bitmap \ {slot} |-> h.fingerprints[s]],
               !.kv_info = [s \in h.bitmap \ {slot} |-> h.kv_info[s]] ]

get_empty_slot(h) ==
    IF Slots \ h.bitmap = {} THEN 0 - 1 ELSE SetMin(Slots \ h.bitmap)

need_split(h) ==
    LET no_space == h.tail_offset >= LEAF_SIZE
        is_slot_full == h.bitmap = Slots
    IN  no_space \/ is_slot_full

need_reclamation(h) ==
    IF h.tail_offset < RECLAMATION_THRESHOLD
    THEN FALSE
    ELSE 2 * Cardinality(h.bitmap) < h.tail_offset

calc_key_hash(key) == key % HashRange

\* ---------------------------------------------------------------------
\* LeafManager: pages of the leaf file, their committed headers and data
\* ---------------------------------------------------------------------
\* A tree record T carries the nodes of the tree together with the state of
\* its leaf manager: free_leaves, header_mmap (ids of mapped pages), npages
\* (file length), hdr (committed header of every page written so far; a page
\* never written is all zero) and data (records by page and offset).
allocate_new_leaves(T) ==
    [ T EXCEPT !.npages = @ + NUM_ALLOCATION,
               !.free_leaves = @ \o [i \in 1..NUM_ALLOCATION |-> T.npages + i - 1] ]

\* an allocation that leaves the page it hands out on the free list
allocate_leaf_keep(T) ==
    LET T1 == IF T.free_leaves = <<>> THEN allocate_new_leaves(T) ELSE T
        new_id == Head(T1.free_leaves)
    IN  [ t |-> [ T1 EXCEPT !.header_mmap = @ \cup {new_id} ],
          id |-> new_id ]

allocate_leaf(T) ==
    LET T1 == IF T.free_leaves = <<>> THEN allocate_new_leaves(T) ELSE T
        new_id == Head(T1.free_leaves)
    IN  [ t |-> [ T1 EXCEPT !.free_leaves = Tail(@),
                            !.header_mmap = @ \cup {new_id} ],
          id |-> new_id ]

deallocate_leaf(T, id) ==
    [ T EXCEPT !.free_leaves = Append(@, id), !.header_mmap = @ \ {id} ]

commit_header(T, id, h) ==
    [ T EXCEPT !.hdr = [p \in DOMAIN T.hdr \cup {id} |->
                           IF p = id THEN h ELSE T.hdr[p]] ]

write_data(T, id, offset, key, value) ==
    [ T EXCEPT !.data = [q \in DOMAIN T.data \cup {<<id, offset>>} |->
                            IF q = <<id, offset>>
                            THEN [k |-> key, v |-> value]
                            ELSE T.data[q]] ]

read_data(T, id, offset) ==
    IF <<id, offset>> \in DOMAIN T.data
    THEN T.data[<<id, offset>>]
    ELSE [k |-> 0, v |-> 0]

\* ---------------------------------------------------------------------
\* Leaf
\* ---------------------------------------------------------------------
\* A node of a tree is a record; a leaf uses id (its page), header (the
\* in-memory header) and next, an inner node uses keys, children and next.
\* Nodes are named by their position in T.nodes; node 1 is the first leaf.
AscSeq(S) ==
    [ i \in 1..Cardinality(S) |->
        CHOOSE x \in S : Cardinality({y \in S : y < x}) = i - 1 ]

LeafNew(T) ==
    LET A == allocate_leaf(T)
    IN  [ A.t EXCEPT !.nodes = Append(@,
            [ is_leaf |-> TRUE, id |-> A.id, header |-> LeafHeaderNew,
              keys |-> <<>>, children |-> <<>>, next |-> NoNode,
              is_root |-> FALSE ]) ]

get_kv_pairs(T, n) ==
    LET self == T.nodes[n]
        slots == AscSeq(self.header.bitmap)
    IN  [ i \in 1..Len(slots) |->
            LET d == read_data(T, self.id, self.header.kv_info[slots[i]].offset)
            IN  [k |-> d.k, v |-> d.v, slot |-> slots[i]] ]

get_existing_slots(T, n, key) ==
    LET self == T.nodes[n]
    IN  { s \in Slots : is_slot_set(self.header, s)
                        /\ self.header.fingerprints[s] = calc_key_hash(key) }

\* the slots among get_existing_slots whose stored key is the key looked for
KeySlots(T, n, key) ==
    LET self == T.nodes[n]
    IN  { s \in get_existing_slots(T, n, key) :
            read_data(T, self.id, self.header.kv_info[s].offset).k = key }

LeafGet(T, n, key) ==
    LET self == T.nodes[n]
        found == KeySlots(T, n, key)
    IN  IF found = {}
        THEN NoValue
        ELSE read_data(T, self.id, self.header.kv_info[SetMin(found)].offset).v

\* an invalidation that leaves the old version of the key in place
invalidate_data_none(T, n, key) == T

invalidate_data(T, n, key) ==
    LET found == KeySlots(T, n, key)
    IN  IF found = {}
        THEN T
        ELSE [ T EXCEPT !.nodes[n].header = unset_slot(@, SetMin(found)) ]

\* the copy loop of reclaim: R carries the tree, the new header and new_slot
RECURSIVE ReclaimCopy(_, _, _, _)
ReclaimCopy(R, n, new_id, kv_pairs) ==
    IF kv_pairs = <<>>
    THEN R
    ELSE LET p == Head(kv_pairs)
             offset == R.new_header.tail_offset
             fp == R.t.nodes[n].header.fingerprints[p.slot]
             T1 == write_data(R.t, new_id, offset, p.k, p.v)
         IN  ReclaimCopy(
               [ t |-> [ T1 EXCEPT !.nodes[n].header = unset_slot(@, p.slot) ],
                 new_header |-> set_slot(R.new_header, R.new_slot, fp,
                                   [page |-> new_id, offset |-> offset],
                                   offset + 1),
                 new_slot |-> R.new_slot + 1 ],
               n, new_id, Tail(kv_pairs))

reclaim(T, n) ==
    LET A == allocate_leaf(T)
        R == ReclaimCopy([t |-> A.t, new_header |-> LeafHeaderNew, new_slot |-> 0],
                         n, A.id, get_kv_pairs(T, n))
        self == R.t.nodes[n]
        new_header == [ R.new_header EXCEPT !.next = self.header.next ]
        T1 == commit_header(R.t, A.id, new_header)
        T2 == commit_header(T1, self.id, self.header)
        T3 == deallocate_leaf(T2, self.id)
    IN  [ T3 EXCEPT !.nodes[n].id = A.id, !.nodes[n].header = new_header ]

PairLess(a, b) ==
    \/ a.k < b.k
    \/ a.k = b.k /\ a.v < b.v
    \/ a.k = b.k /\ a.v = b.v /\ a.slot < b.slot

\* Leaf::insert on a leaf that does not split: the old record of the key is
\* invalidated, the page is reclaimed when mostly dead, and the record goes
\* to the lowest empty slot, after which the header is committed
LeafStore(T, n, key, value) ==
    LET self == T.nodes[n]
        slot == get_empty_slot(self.header)
        offset == self.header.tail_offset
        h == set_slot(self.header, slot, calc_key_hash(key),
                      [page |-> self.id, offset |-> offset], offset + 1)
    IN  IF slot < 0
        THEN T
        ELSE commit_header(
               [ write_data(T, self.id, offset, key, value)
                   EXCEPT !.nodes[n].header = h ],
               self.id, h)

LeafPrepare(T, n, key) ==
    LET T1 == invalidate_data(T, n, key)
    IN  IF need_reclamation(T1.nodes[n].header) THEN reclaim(T1, n) ELSE T1

\* Leaf::insert into the leaf a split has just created.  Such a leaf holds at
\* most the upper half of a full leaf and one more record, so with two or
\* more slots it never splits in turn.
NewLeafInsert(T, m, key, value) == LeafStore(LeafPrepare(T, m, key), m, key, value)

\* the loop of Leaf::split moving the upper half into the new leaf m
RECURSIVE SplitMove(_, _, _, _)
SplitMove(T, n, m, moved) ==
    IF moved = <<>>
    THEN T
    ELSE LET p == Head(moved)
             T1 == NewLeafInsert(T, m, p.k, p.v)
         IN  SplitMove([ T1 EXCEPT !.nodes[n].header = unset_slot(@, p.slot) ],
                       n, m, Tail(moved))

\* the end of Leaf::split: the new leaf m takes over the old next pointer
\* (in its in-memory header only) and becomes the next of leaf n
SplitLink(T, n, m, split_key) ==
    LET self == T.nodes[n]
        linked == IF self.next # NoNode
                  THEN [ T.nodes[m] EXCEPT !.header.next = self.header.next,
                                           !.next = self.next ]
                  ELSE T.nodes[m]
    IN  [ t |-> [ T EXCEPT !.nodes[m] = linked,
                           !.nodes[n].header.next = T.nodes[m].id,
                           !.nodes[n].next = m ],
          split_key |-> split_key ]

SplitSorted(T, n, T0, kv_pairs) ==
    SplitLink(SplitMove(T0, n, Len(T0.nodes),
                        SubSeq(kv_pairs, Len(kv_pairs) \div 2 + 1, Len(kv_pairs))),
              n, Len(T0.nodes), kv_pairs[Len(kv_pairs) \div 2 + 1].k)

\* a split that takes the pairs in slot order
LeafSplitUnsorted(T, n) ==
    SplitSorted(T, n, LeafNew(T), get_kv_pairs(T, n))

LeafSplit(T, n) ==
    SplitSorted(T, n, LeafNew(T), SortSeq(get_kv_pairs(T, n), PairLess))

\* Leaf::insert once the leaf has split with result S: the record goes to the
\* new leaf when the split key is below the key, and then the function
\* returns at once; otherwise it is stored in this leaf
InsertAfterSplit(S, n, key, value) ==
    IF S.split_key < key
    THEN [ t |-> NewLeafInsert(S.t, S.t.nodes[n].next, key, value),
           ret |-> S.split_key ]
    ELSE [ t |-> LeafStore(S.t, n, key, value), ret |-> S.split_key ]

InsertPrepared(T, n, key, value) ==
    IF need_split(T.nodes[n].header)
    THEN InsertAfterSplit(LeafSplit(T, n), n, key, value)
    ELSE [ t |-> LeafStore(T, n, key, value), ret |-> NoKey ]

\* Leaf::insert; the result is the tree and the split key (NoKey if none)
LeafInsert(T, n, key, value) ==
    InsertPrepared(LeafPrepare(T, n, key), n, key, value)

\* ---------------------------------------------------------------------
\* Inner
\* ---------------------------------------------------------------------
InnerNew ==
    [ is_leaf |-> FALSE, id |-> 0, header |-> LeafHeaderNew,
      keys |-> <<>>, children |-> <<>>, next |-> NoNode, is_root |-> FALSE ]

InsertAt(seq, i, x) ==
    SubSeq(seq, 1, i - 1) \o <<x>> \o SubSeq(seq, i, Len(seq))

\* binary_search: Ok(i) when keys[i] = key, else Err(number of smaller keys)
binary_search(keys, key) ==
    LET below == Cardinality({ i \in 1..Len(keys) : keys[i] < key })
    IN  [ ok |-> \E i \in 1..Len(keys) : keys[i] = key, i |-> below ]

\* a child lookup that goes left of a separator equal to the key
get_child_left(T, n, key) ==
    LET self == T.nodes[n]
        child_idx == binary_search(self.keys, key).i
    IN  IF child_idx = Len(self.children)
        THEN self.next
        ELSE self.children[child_idx + 1]

\* Inner::get_child, as a node (NoNode when the next pointer is taken and absent)
get_child(T, n, key) ==
    LET self == T.nodes[n]
        b == binary_search(self.keys, key)
        child_idx == IF b.ok THEN b.i + 1 ELSE b.i
    IN  IF child_idx = Len(self.children)
        THEN self.next
        ELSE self.children[child_idx + 1]

may_need_split(T, n) ==
    IF T.nodes[n].is_leaf
    THEN need_split(T.nodes[n].header)
    ELSE Len(T.nodes[n].keys) = FANOUT

InnerNeedSplit(T, n) == Len(T.nodes[n].keys) > FANOUT

\* a split that keeps the split key as the first key of the new inner
InnerSplitKeepKey(T, n) ==
    LET self == T.nodes[n]
        at == (FANOUT + 1) \div 2
        new_keys == SubSeq(self.keys, at + 1, Len(self.keys))
        new_inner == [ InnerNew EXCEPT !.keys = new_keys,
                                       !.children = SubSeq(self.children, at + 2,
                                                           Len(self.children)),
                                       !.next = self.next ]
    IN  [ t |-> [ T EXCEPT !.nodes =
                    Append([ @ EXCEPT ![n].keys = SubSeq(self.keys, 1, at),
                                      ![n].children = SubSeq(self.children, 1, at + 1),
                                      ![n].next = Len(T.nodes) + 1 ],
                           new_inner) ],
          split_key |-> Head(new_keys) ]

InnerSplit(T, n) ==
    LET self == T.nodes[n]
        at == (FANOUT + 1) \div 2
        new_keys == SubSeq(self.keys, at + 1, Len(self.keys))
        split_key == Head(new_keys)
        new_children == SubSeq(self.children, at + 2, Len(self.children))
        new_inner == [ InnerNew EXCEPT !.keys = Tail(new_keys),
                                       !.children = new_children,
                                       !.next = self.next ]
        m == Len(T.nodes) + 1
    IN  [ t |-> [ T EXCEPT !.nodes =
                    Append([ @ EXCEPT ![n].keys = SubSeq(self.keys, 1, at),
                                      ![n].children = SubSeq(self.children, 1, at + 1),
                                      ![n].next = m ],
                           new_inner) ],
          split_key |-> split_key ]

\* an insert that puts the new child before the child that has split
InnerInsertChildBefore(T, n, key, inserted_key) ==
    LET self == T.nodes[n]
        new_child == T.nodes[get_child(T, n, key)].next
        i == binary_search(self.keys, inserted_key).i
        T1 == [ T EXCEPT !.nodes[n].keys = InsertAt(self.keys, i + 1, inserted_key),
                         !.nodes[n].children = InsertAt(self.children, i + 1, new_child) ]
    IN  IF InnerNeedSplit(T1, n)
        THEN LET S == InnerSplit(T1, n) IN [ t |-> S.t, ret |-> S.split_key ]
        ELSE [ t |-> T1, ret |-> NoKey ]

\* Inner::insert of a separator produced by the split of the child for key
InnerInsert(T, n, key, inserted_key) ==
    LET self == T.nodes[n]
        child == get_child(T, n, key)
        new_child == T.nodes[child].next
        i == binary_search(self.keys, inserted_key).i
        keys == InsertAt(self.keys, i + 1, inserted_key)
        children == IF i + 1 >= Len(self.children)
                    THEN Append(self.children, new_child)
                    ELSE InsertAt(self.children, i + 2, new_child)
        T1 == [ T EXCEPT !.nodes[n].keys = keys, !.nodes[n].children = children ]
    IN  IF InnerNeedSplit(T1, n)
        THEN LET S == InnerSplit(T1, n) IN [ t |-> S.t, ret |-> S.split_key ]
        ELSE [ t |-> T1, ret |-> NoKey ]

\* ---------------------------------------------------------------------
\* FPTree
\* ---------------------------------------------------------------------
FPTreeNew(id) ==
    LET T0 == [ id |-> id, nodes |-> <<>>, root |-> 1, root_split_count |-> 0,
                free_leaves |-> <<>>, header_mmap |-> {}, npages |-> 0,
                hdr |-> [p \in {} |-> 0], data |-> [q \in {} |-> 0] ]
    IN  [ LeafNew(T0) EXCEPT !.nodes[1].is_root = TRUE ]

\* a root split that does not count itself
split_root_uncounted(T, key, new_child) ==
    LET new_root == [ InnerNew EXCEPT !.is_root = TRUE,
                                     !.keys = <<key>>,
                                     !.children = <<T.root, new_child>> ]
    IN  [ T EXCEPT !.nodes = Append(@, new_root),
                   !.root = Len(T.nodes) + 1 ]

split_root(T, key, new_child) ==
    LET new_root == [ InnerNew EXCEPT !.is_root = TRUE,
                                     !.keys = <<key>>,
                                     !.children = <<T.root, new_child>> ]
    IN  [ T EXCEPT !.nodes = Append(@, new_root),
                   !.root = Len(T.nodes) + 1,
                   !.root_split_count = @ + 1 ]

\* the nodes from node n down to the leaf responsible for key
RECURSIVE PathFrom(_, _, _)
PathFrom(T, n, key) ==
    IF T.nodes[n].is_leaf
    THEN <<n>>
    ELSE <<n>> \o PathFrom(T, get_child(T, n, key), key)

\* a phase 1 that keeps only the leaf locked
locked_nodes_leaf(T, key) ==
    LET nodes == PathFrom(T, T.root, key)
    IN  [ is_root_locked |-> FALSE, nodes |-> << nodes[Len(nodes)] >> ]

\* phase 1 of put: the nodes that stay write-locked, top-down; a node that
\* cannot split releases every lock taken above it
locked_nodes(T, key) ==
    LET nodes == PathFrom(T, T.root, key)
        safe == { i \in 1..Len(nodes) : ~may_need_split(T, nodes[i]) }
    IN  [ is_root_locked |-> safe = {},
          nodes |-> IF safe = {} THEN nodes
                    ELSE SubSeq(nodes, SetMax(safe), Len(nodes)) ]

NodeInsert(T, n, key, inserted) ==
    IF T.nodes[n].is_leaf
    THEN LeafInsert(T, n, key, inserted)
    ELSE InnerInsert(T, n, key, inserted)

\* phase 2 of put: insert bottom-up while the nodes split.  InsertStep is
\* the body of the loop once node n has returned R from its insert.
RECURSIVE InsertUp(_, _, _, _, _)
RECURSIVE InsertStep(_, _, _, _, _)
InsertStep(R, n, locked, is_root_locked, key) ==
    IF R.ret = NoKey
    THEN R.t
    ELSE IF is_root_locked /\ R.t.nodes[n].is_root
         THEN split_root([ R.t EXCEPT !.nodes[n].is_root = FALSE ],
                         R.ret, R.t.nodes[n].next)
         ELSE InsertUp(R.t, SubSeq(locked, 1, Len(locked) - 1),
                       is_root_locked, key, R.ret)

InsertUp(T, locked, is_root_locked, key, inserted) ==
    IF locked = <<>>
    THEN T
    ELSE InsertStep(NodeInsert(T, locked[Len(locked)], key, inserted),
                    locked[Len(locked)], locked, is_root_locked, key)

PutLocked(T, L, key, value) ==
    InsertUp(T, L.nodes, L.is_root_locked, key, value)

FPTreePut(T, key, value) == PutLocked(T, locked_nodes(T, key), key, value)

FPTreeGet(T, key) ==
    LET nodes == PathFrom(T, T.root, key)
    IN  LeafGet(T, nodes[Len(nodes)], key)

\* ---------------------------------------------------------------------
\* LeafManager: recovery and the leaf id chain
\* ---------------------------------------------------------------------
\* a leaf file on disk is [npages, hdr, data]; FileOf takes it from a tree
FileOf(T) == [ npages |-> T.npages, hdr |-> T.hdr, data |-> T.data ]

PageHeader(F, id) == IF id \in DOMAIN F.hdr THEN F.hdr[id] ELSE ZeroHeader

\* a recovery that validates the magic only
recover_state_magic_only(F) ==
    LET valid == { id \in 0..(F.npages - 1) :
                     PageHeader(F, id).magic = HEADER_MAGIC }
    IN  [ id |-> 0, nodes |-> <<>>, root |-> 0, root_split_count |-> 0,
          free_leaves |-> AscSeq((0..(F.npages - 1)) \ valid),
          header_mmap |-> valid,
          npages |-> F.npages, hdr |-> F.hdr, data |-> F.data ]

\* LeafManager::new on an existing file: the manager state after recover_state.
\* Pages are visited in id order; a page with a bad magic or a bad CRC goes to
\* the free list, every other page is mapped.
recover_state(F) ==
    LET valid == { id \in 0..(F.npages - 1) :
                     /\ PageHeader(F, id).magic = HEADER_MAGIC
                     /\ PageHeader(F, id).crc_ok }
    IN  [ id |-> 0, nodes |-> <<>>, root |-> 0, root_split_count |-> 0,
          free_leaves |-> AscSeq((0..(F.npages - 1)) \ valid),
          header_mmap |-> valid,
          npages |-> F.npages, hdr |-> F.hdr, data |-> F.data ]

has_header(T, id) == id \in T.header_mmap

get_header(T, id) == PageHeader(T, id)

get_next(h) == IF h.next = INVALID_LEAF_ID THEN NoOffset ELSE h.next

\* get_leaf_id_chain: [st, chain] with st "ok", "panic" when an expect fails,
\* or "hang" when the walk comes back to a page it has already pushed
RECURSIVE ChainFrom(_, _, _)
ChainFrom(T, header, chain) ==
    LET next == get_next(header)
    IN  IF next < 0
        THEN [ st |-> "ok", chain |-> chain ]
        ELSE IF \E i \in 1..Len(chain) : chain[i] = next
             THEN [ st |-> "hang", chain |-> Append(chain, next) ]
             ELSE IF ~has_header(T, next)
                  THEN [ st |-> "panic", chain |-> Append(chain, next) ]
                  ELSE ChainFrom(T, get_header(T, next), Append(chain, next))

get_leaf_id_chain(T) ==
    IF ~has_header(T, 0)
    THEN [ st |-> "panic", chain |-> <<>> ]
    ELSE ChainFrom(T, get_header(T, 0), <<0>>)

\* ---------------------------------------------------------------------
\* SparseIndex
\* ---------------------------------------------------------------------
SparseIndexNew == [ prev_offset |-> NoOffset, index |-> [k \in {} |-> 0] ]

\* an insert that retains every key
SparseIndexInsertAll(ix, key, offset) ==
    [ prev_offset |-> offset,
      index |-> [k \in DOMAIN ix.index \cup {key} |->
                   IF k = key THEN offset ELSE ix.index[k]] ]

SparseIndexInsert(ix, key, offset) ==
    IF ix.prev_offset = NoOffset \/ offset - ix.prev_offset >= LEAST_OFFSET
    THEN [ prev_offset |-> offset,
           index |-> [k \in DOMAIN ix.index \cup {key} |->
                        IF k = key THEN offset ELSE ix.index[k]] ]
    ELSE ix

\* SparseIndex::get: Panic when no indexed key is less than or equal to key
SparseIndexGet(ix, key) ==
    IF key \in DOMAIN ix.index
    THEN ix.index[key]
    ELSE LET below == { k \in DOMAIN ix.index : k < key }
         IN  IF below = {} THEN Panic ELSE ix.index[SetMax(below)]

\* ---------------------------------------------------------------------
\* FlushWriter
\* ---------------------------------------------------------------------
KvLess(a, b) == a.k < b.k \/ (a.k = b.k /\ a.v < b.v)

\* the records of one leaf as flush_kv reads them from its committed header
LeafRecords(T, id) ==
    LET header == get_header(T, id)
        slots == AscSeq(header.bitmap)
    IN  SortSeq([ i \in 1..Len(slots) |->
                    read_data(T, header.kv_info[slots[i]].page,
                              header.kv_info[slots[i]].offset) ],
                KvLess)

\* the write loop of flush_kv over the records of one leaf
RECURSIVE WriteRecords(_, _)
WriteRecords(info, kv_pairs) ==
    IF kv_pairs = <<>>
    THEN info
    ELSE LET p == Head(kv_pairs)
         IN  WriteRecords(
               [ info EXCEPT
                   !.filter = @ \cup {p.k},
                   !.index = SparseIndexInsert(@, p.k, info.size),
                   !.size = @ + get_data_size(KeyLen(p.k), ValueLen(p.v)),
                   !.records = Append(@, p) ],
               Tail(kv_pairs))

\* flush_kv: the TableInfo (with the records of the table file), or a panic
\* when a page of the chain has no header
RECURSIVE FlushLeaves(_, _, _)
FlushLeaves(T, id_list, info) ==
    IF id_list = <<>>
    THEN [ st |-> "ok", info |-> info ]
    ELSE IF ~has_header(T, Head(id_list))
         THEN [ st |-> "panic", info |-> info ]
         ELSE FlushLeaves(T, Tail(id_list),
                          WriteRecords(info, LeafRecords(T, Head(id_list))))

flush_kv(T, id_list, tid) ==
    FlushLeaves(T, id_list,
                [ id |-> tid, size |-> 0, level |-> 0, filter |-> {},
                  index |-> SparseIndexNew, records |-> <<>> ])

\* FlushWriter::flush and flush_with_file after the leaf manager is at hand
FlushChain(T, c, tid) ==
    IF c.st = "ok"
    THEN flush_kv(T, c.chain, tid)
    ELSE [ st |-> c.st, info |-> flush_kv(T, <<>>, tid).info ]

flush(T, tid) == FlushChain(T, get_leaf_id_chain(T), tid)

flush_with_file(F, tid) == flush(recover_state(F), tid)

\* ---------------------------------------------------------------------
\* SstableManager
\* ---------------------------------------------------------------------
\* the offset of every record of a table file
RECURSIVE OffsetOf(_, _)
OffsetOf(records, i) ==
    IF i = 1
    THEN 0
    ELSE OffsetOf(records, i - 1)
           + get_data_size(KeyLen(records[i - 1].k), ValueLen(records[i - 1].v))

\* get_from_table: the first record at or after offset whose key is key
get_from_table(records, key, offset) ==
    LET hits == { i \in 1..Len(records) :
                    OffsetOf(records, i) >= offset /\ records[i].k = key }
    IN  IF hits = {} THEN NoValue ELSE records[SetMin(hits)].v

\* SstableManager::get over the table ids in descending order.  The result is
\* the set of possible outcomes: a bloom filter answers true for every key it
\* holds and may answer either way for any other key.
RECURSIVE SstableGetFrom(_, _, _)
SstableGetFrom(S, ids, key) ==
    IF ids = <<>>
    THEN {NoValue}
    ELSE LET tid == Head(ids)
             rest == SstableGetFrom(S, Tail(ids), key)
             offset == SparseIndexGet(S.indexes[tid], key)
             r == get_from_table(S.files[tid], key, offset)
             looked == IF tid \notin DOMAIN S.indexes
                       THEN {Panic}
                       ELSE IF offset = Panic
                            THEN {Panic}
                            ELSE IF r # NoValue THEN {r} ELSE rest
         IN  IF key \in S.filters[tid] THEN looked ELSE looked \cup rest

DescSeq(S) ==
    [ i \in 1..Cardinality(S) |->
        CHOOSE x \in S : Cardinality({y \in S : y > x}) = i - 1 ]

SstableGet(S, key) == SstableGetFrom(S, DescSeq(DOMAIN S.filters), key)

\* ---------------------------------------------------------------------
\* State
\* ---------------------------------------------------------------------
VARIABLES
    phase,        \* "closed", "opening", "open", "error", "panic" or "hang"
    fptree_id,    \* FPTreeManager.fptree_id
    fptree,       \* FPTreeManager.fptree_ptr: <<tree>>, or <<>> while not open
    new_fptree,   \* FPTreeManager.new_fptree_ptr: <<tree>> or <<>> (None)
    leaf_files,   \* leaf files on disk that no open tree owns, by tree id
    table_files,  \* table files on disk: the records, by table id
    meta_files,   \* filter and index files on disk, by table id
    filters,      \* SstableManager.filters: the keys set in each bloom filter
    indexes,      \* SstableManager.indexes
    table_id,     \* FlushWriter.table_id
    pending,      \* leaf files the running open has still to flush
    last,         \* for each key the value of its last write (0: none/deleted)
    ver,          \* the last value handed to a put
    ops,          \* number of mutations so far
    reopens,      \* number of times the store was closed
    faults,       \* number of injected I/O errors and corruptions
    corrupt,      \* <<tree id, page>> of the header damaged on disk, or <<>>
    got,          \* the last get: [k, r, tier], cleared by the next operation
    thr,          \* the client threads sharing the handle: where each one is
    chan,         \* the channel of flush signals to the flush worker
    worker,       \* the flush worker thread: [pc, info]
    gets,         \* number of gets started by the client threads
    xl,           \* one leaf with room for large pairs, and its leaf file
    lk            \* the locks of the store and the threads that take them

vars == << phase, fptree_id, fptree, new_fptree, leaf_files, table_files,
           meta_files, filters, indexes, table_id, pending, last, ver, ops,
           reopens, faults, corrupt, got, thr, chan, worker, gets, xl, lk >>

kvsVars == << phase, fptree_id, fptree, new_fptree, leaf_files, table_files,
              meta_files, filters, indexes, table_id, pending, last, ver, ops,
              reopens, faults, corrupt, got, thr, chan, worker, gets >>

concVars == << thr, chan, worker, gets >>

\* a client thread: pc is "idle", "put" (inside FPTreeManager::put or delete,
\* about to write v to k in tree `tree`), "signal" (FPTreeManager::put has
\* returned), "get" (inside FPTreeManager::get, at node `node` of tree `tree`) or "sst"
\* (FPTreeManager::get has returned None); after a get, k and r are its key
\* and result, adm the results a get started after the writes returned so
\* far may return, quiet whether it started after all the writes
Threads == 1..NumThreads
Idle ==
    [ pc |-> "idle", k |-> 0, v |-> 0, tree |-> "none", node |-> 0,
      r |-> NoValue, adm |-> {}, quiet |-> FALSE ]

diskVars == << leaf_files, table_files, meta_files >>
sstVars == << table_files, meta_files, filters, indexes, table_id >>
NoGot == [ k |-> 0, r |-> NoValue, tier |-> "none" ]
EmptyMap == [ x \in {} |-> 0 ]
MapPut(f, x, y) == [ z \in DOMAIN f \cup {x} |-> IF z = x THEN y ELSE f[z] ]
MapDel(f, x) == [ z \in DOMAIN f \ {x} |-> f[z] ]

\* ---------------------------------------------------------------------
\* The encoding of a pair: | size (4B) | data | CRC (4B) | for the key, then
\* the same for the value
\* ---------------------------------------------------------------------
LEN_SIZE == 4
LEN_CRC == 4

to_le_bytes(n) ==
    << n % 256, (n \div 256) % 256, (n \div 65536) % 256,
       (n \div 16777216) % 256 >>

from_le_bytes(b) == b[1] + 256 * b[2] + 65536 * b[3] + 16777216 * b[4]

\* the checksum of a byte string, a value that depends on every byte and on
\* its position, kept to 16 of its 32 bits
RECURSIVE calc_crc(_)
calc_crc(data) ==
    IF data = <<>>
    THEN 0
    ELSE (31 * calc_crc(SubSeq(data, 1, Len(data) - 1))
            + Len(data) + data[Len(data)]) % 65536

format_data_with_crc(key, value) ==
    to_le_bytes(Len(key)) \o key \o to_le_bytes(calc_crc(key))
        \o to_le_bytes(Len(value)) \o value \o to_le_bytes(calc_crc(value))

get_key_offset(key_size) == << LEN_SIZE, LEN_SIZE + key_size >>

get_value_offset(key_size, value_size) ==
    << key_size + LEN_REDUNDANCY + LEN_SIZE,
       key_size + LEN_REDUNDANCY + LEN_SIZE + value_size >>

get_bound_offset(key_size) == key_size + LEN_REDUNDANCY

check_slot_crc(bytes) ==
    LET size == from_le_bytes(SubSeq(bytes, 1, LEN_SIZE))
        crc == from_le_bytes(SubSeq(bytes, Len(bytes) - LEN_CRC + 1, Len(bytes)))
    IN  calc_crc(SubSeq(bytes, LEN_SIZE + 1, LEN_SIZE + size)) = crc

\* read_data on the bytes mapped at the offset: a slice start..end of the
\* source is SubSeq(start + 1, end)
read_data_bytes(mmap, key_size, value_size) ==
    LET bound_offset == get_bound_offset(key_size)
        ko == get_key_offset(key_size)
        vo == get_value_offset(key_size, value_size)
    IN  IF ~check_slot_crc(SubSeq(mmap, 1, bound_offset))
           \/ ~check_slot_crc(SubSeq(mmap, bound_offset + 1, Len(mmap)))
        THEN [ st |-> "err", key |-> <<>>, value |-> <<>> ]
        ELSE [ st |-> "ok",
               key |-> SubSeq(mmap, ko[1] + 1, ko[2]),
               value |-> IF value_size = 0 THEN <<>>
                         ELSE SubSeq(mmap, vo[1] + 1, vo[2]) ]

\* ---------------------------------------------------------------------
\* Extension pages: one leaf whose pairs take several alignment units
\* ---------------------------------------------------------------------
\* The leaves of Spec and SpecConc hold pairs of one unit.  Here one leaf is
\* followed through puts of pairs of 1..ExtLeafSize units, on pages of
\* ExtLeafSize units (256 in the source), so that a pair can be larger than
\* half a page and larger than a page.  len is the rounded-up size of the
\* encoded pair, round_up_size(get_data_size(key.len, value.len)), in units.
ExtLeafSize == 2 * LEAF_SIZE
END_TAIL_OFFSET == ExtLeafSize - INITIAL_TAIL_OFFSET
UnitSizes == 1..ExtLeafSize

get_ext(h) == IF h.ext = INVALID_LEAF_ID THEN NoOffset ELSE h.ext

\* a write_data that never returns None
write_data_unbounded(T, id, offset, rec) ==
    [ some |-> TRUE, tail |-> offset + rec.len,
      t |-> [ T EXCEPT !.data = MapPut(@, <<id, offset>>, rec) ] ]

\* write_data as Option: some = FALSE is None
write_data_sized(T, id, offset, rec) ==
    LET aligned_tail == offset + rec.len
    IN  IF aligned_tail > END_TAIL_OFFSET
        THEN [ some |-> FALSE, tail |-> offset, t |-> T ]
        ELSE [ some |-> TRUE, tail |-> aligned_tail,
               t |-> [ T EXCEPT !.data = MapPut(@, <<id, offset>>, rec) ] ]

\* the walk of allocate_ext_page to the last page of the chain of id: the
\* page id, Panic when an expect fails, NoOffset when the walk comes back to
\* a page it has visited (it then never ends)
RECURSIVE ExtTail(_, _, _)
ExtTail(T, last_id, seen) ==
    LET ext == get_ext(get_header(T, last_id))
    IN  IF ext < 0
        THEN last_id
        ELSE IF ext \in seen
             THEN NoOffset
             ELSE IF ~has_header(T, ext)
                  THEN Panic
                  ELSE ExtTail(T, ext, seen \cup {ext})

allocate_ext_page(T, id) ==
    LET A == allocate_leaf(T)
        last_id == IF has_header(A.t, id) THEN ExtTail(A.t, id, {id}) ELSE Panic
    IN  IF last_id < 0
        THEN [ st |-> IF last_id = Panic THEN "panic" ELSE "hang",
               t |-> A.t, id |-> A.id ]
        ELSE [ st |-> "ok",
               t |-> commit_header(A.t, last_id,
                        [ get_header(A.t, last_id) EXCEPT !.ext = A.id ]),
               id |-> A.id ]

\* the slots of the leaf whose record carries the key
ExtKeySlots(X, key) ==
    { s \in X.leaf.header.bitmap :
        LET i == X.leaf.header.kv_info[s]
        IN  <<i.page, i.offset>> \in DOMAIN X.t.data
            /\ X.t.data[<<i.page, i.offset>>].k = key }

\* Leaf::get on the leaf: the record read through kv_info, or NoGot
ExtGet(X, key) ==
    LET found == ExtKeySlots(X, key)
    IN  IF found = {}
        THEN [ k |-> key, v |-> NoValue, len |-> 0 ]
        ELSE LET i == X.leaf.header.kv_info[SetMin(found)]
                 d == X.t.data[<<i.page, i.offset>>]
             IN  [ k |-> key, v |-> d.v, len |-> d.len ]

\* a new leaf file, and the leaf Leaf::new makes on it
XInit ==
    LET A == allocate_leaf([ npages |-> 0, free_leaves |-> <<>>,
                             header_mmap |-> {}, hdr |-> EmptyMap,
                             data |-> EmptyMap ])
    IN  [ t |-> A.t,
          leaf |-> [ id |-> A.id, header |-> LeafHeaderNew, cur |-> A.id ],
          pc |-> "idle", key |-> 0, val |-> 0, len |-> 0, allocs |-> 0,
          puts |-> 0, got |-> [ k |-> 0, v |-> NoValue, len |-> 0 ] ]

\* ---------------------------------------------------------------------
\* FPTreeManager
\* ---------------------------------------------------------------------
\* a need_flush that does not look at the new tree pointer
need_flush_any(cur, new) == cur[1].root_split_count >= root_split_threshold

need_flush(cur, new) ==
    new = <<>> /\ cur[1].root_split_count >= root_split_threshold

\* a put that writes to the current tree whatever the new tree pointer holds
ManagerRouteCurrent(new) == "cur"

\* FPTreeManager::put (and delete, which puts the empty value): the tree the
\* match on the new tree pointer selects, and the write to that tree
ManagerRoute(new) == IF new # <<>> THEN "new" ELSE "cur"

ManagerPutTo(cur, new, which, key, value) ==
    IF which = "new"
    THEN [ cur |-> cur, new |-> << FPTreePut(new[1], key, value) >> ]
    ELSE [ cur |-> << FPTreePut(cur[1], key, value) >>, new |-> new ]

ManagerPut(cur, new, key, value) ==
    ManagerPutTo(cur, new, ManagerRoute(new), key, value)

\* a get that asks the current tree before the new tree
ManagerGetCurrentFirst(cur, new, key) ==
    LET result == FPTreeGet(cur[1], key)
    IN  IF result = NoValue /\ new # <<>> THEN FPTreeGet(new[1], key) ELSE result

\* FPTreeManager::get: the new tree first, the current tree when it has nothing
ManagerGet(cur, new, key) ==
    LET result == IF new # <<>> THEN FPTreeGet(new[1], key) ELSE NoValue
    IN  IF result = NoValue THEN FPTreeGet(cur[1], key) ELSE result

\* FPTreeManager::prepare_flush: the new tree pointer afterwards and whether
\* the first leaf of the current tree is returned; strong_count is the count
\* of fptree_written, 1 plus the puts and deletes writing to the current tree
prepare_flush(cur, new, id, strong_count) ==
    IF ~need_flush(cur, new)
    THEN [ new |-> new, some |-> FALSE ]
    ELSE IF strong_count # 1
         THEN [ new |-> << FPTreeNew(id + 1) >>, some |-> FALSE ]
         ELSE [ new |-> << FPTreeNew(id + 1) >>, some |-> TRUE ]

\* ---------------------------------------------------------------------
\* KVS (single client)
\* ---------------------------------------------------------------------
SstState == [ filters |-> filters, indexes |-> indexes, files |-> table_files ]

\* an empty value read from any tier is reported as None
NonEmpty(v) == IF v = 0 THEN NoValue ELSE v

\* KVS::get: the possible results [r, tier]: r is a value, NoValue for None,
\* or Panic; tier is "tree" when FPTreeManager::get found a record and
\* "table" when SstableManager::get was asked
KVSGetFrom(r, key) ==
    IF r # NoValue
    THEN { [ r |-> NonEmpty(r), tier |-> "tree" ] }
    ELSE { [ r |-> NonEmpty(v), tier |-> "table" ] : v \in SstableGet(SstState, key) }

KVSGet(key) == KVSGetFrom(ManagerGet(fptree, new_fptree, key), key)

IoOutcomes == IF faults < MaxFault THEN {"ok", "flush_err", "register_err"} ELSE {"ok"}

\* the record write_filter and write_index append for a table: the encoded
\* filter and index, each followed by its CRC (filter_ok and index_ok say
\* whether the CRC on disk still matches)
MetaRecord(filter, index) ==
    [ filter |-> filter, index |-> index, filter_ok |-> TRUE, index_ok |-> TRUE ]

\* load_filters: read_filter returns the error of check_crc at the first
\* record whose CRC does not match, and the loop ends with that error
load_filters(meta) ==
    IF \E t \in DOMAIN meta : ~meta[t].filter_ok
    THEN [ st |-> "err", map |-> EmptyMap ]
    ELSE [ st |-> "ok", map |-> [ t \in DOMAIN meta |-> meta[t].filter ] ]

\* load_indexes, in the same way over the index file
load_indexes(meta) ==
    IF \E t \in DOMAIN meta : ~meta[t].index_ok
    THEN [ st |-> "err", map |-> EmptyMap ]
    ELSE [ st |-> "ok", map |-> [ t \in DOMAIN meta |-> meta[t].index ] ]

\* SstableManager::register: the filter and the index are written to disk and
\* then inserted into the two maps
Register(info) ==
    /\ meta_files' = MapPut(meta_files, info.id,
                            MetaRecord(info.filter, info.index))
    /\ filters' = MapPut(filters, info.id, info.filter)
    /\ indexes' = MapPut(indexes, info.id, info.index)

\* the flush cycle run by KVS::put once the tree put has made need_flush
\* true: P is the result of prepare_flush, R the result of flush
FlushCycle(M, io, P, R) ==
    IF io = "flush_err"
    THEN /\ fptree' = M.cur /\ new_fptree' = P.new
         /\ faults' = faults + 1
         /\ UNCHANGED << phase, fptree_id, sstVars >>
    ELSE IF R.st # "ok"
    THEN /\ fptree' = M.cur /\ new_fptree' = P.new
         /\ phase' = R.st
         /\ UNCHANGED << fptree_id, sstVars, faults >>
    ELSE IF io = "register_err"
    THEN /\ fptree' = M.cur /\ new_fptree' = P.new
         /\ table_files' = MapPut(table_files, table_id, R.info.records)
         /\ table_id' = table_id + 2
         /\ faults' = faults + 1
         /\ UNCHANGED << phase, fptree_id, meta_files, filters, indexes >>
    ELSE /\ table_files' = MapPut(table_files, table_id, R.info.records)
         /\ table_id' = table_id + 2
         /\ Register(R.info)
         /\ fptree' = P.new /\ new_fptree' = <<>>
         /\ fptree_id' = fptree_id + 1
         /\ UNCHANGED << phase, faults >>

\* KVS::put after FPTreeManager::put has returned the trees M
PutFlush(M) ==
    IF need_flush(M.cur, M.new)
    THEN \E io \in IoOutcomes :
            FlushCycle(M, io, prepare_flush(M.cur, M.new, fptree_id, 1),
                       flush(M.cur[1], table_id))
    ELSE /\ fptree' = M.cur /\ new_fptree' = M.new
         /\ UNCHANGED << phase, fptree_id, sstVars, faults >>

Put(k) ==
    /\ phase = "open" /\ ops < MaxOps
    /\ PutFlush(ManagerPut(fptree, new_fptree, k, ver + 1))
    /\ ver' = ver + 1
    /\ ops' = ops + 1
    /\ last' = [ last EXCEPT ![k] = ver + 1 ]
    /\ got' = NoGot
    /\ UNCHANGED << leaf_files, pending, reopens, corrupt >>
    /\ UNCHANGED << concVars, xl, lk >>

DeleteDone(M) == fptree' = M.cur /\ new_fptree' = M.new

Delete(k) ==
    /\ phase = "open" /\ ops < MaxOps
    /\ DeleteDone(ManagerPut(fptree, new_fptree, k, 0))
    /\ ops' = ops + 1
    /\ last' = [ last EXCEPT ![k] = 0 ]
    /\ got' = NoGot
    /\ UNCHANGED << phase, fptree_id, sstVars, leaf_files, pending, ver,
                    reopens, faults, corrupt >>
    /\ UNCHANGED << concVars, xl, lk >>

Get(k) ==
    /\ phase = "open"
    /\ \E g \in KVSGet(k) :
          /\ got' = [ k |-> k, r |-> g.r, tier |-> g.tier ]
          /\ phase' = IF g.r = Panic THEN "panic" ELSE phase
    /\ UNCHANGED << fptree_id, fptree, new_fptree, sstVars, leaf_files,
                    pending, last, ver, ops, reopens, faults, corrupt >>
    /\ UNCHANGED << concVars, xl, lk >>

\* the handle is dropped: only the files stay
Close ==
    /\ phase = "open" /\ reopens < MaxReopen
    /\ phase' = "closed"
    /\ leaf_files' =
         IF new_fptree = <<>>
         THEN MapPut(EmptyMap, fptree_id, FileOf(fptree[1]))
         ELSE MapPut(MapPut(EmptyMap, fptree_id, FileOf(fptree[1])),
                     fptree_id + 1, FileOf(new_fptree[1]))
    /\ fptree' = <<>> /\ new_fptree' = <<>>
    /\ filters' = EmptyMap /\ indexes' = EmptyMap
    /\ reopens' = reopens + 1
    /\ got' = NoGot
    /\ UNCHANGED << fptree_id, table_files, meta_files, table_id, pending,
                    last, ver, ops, faults, corrupt >>
    /\ UNCHANGED << concVars, xl, lk >>

\* a committed header of a leaf file is damaged while the store is closed
Corrupt(g, p, bad_magic) ==
    /\ phase = "closed" /\ faults < MaxFault
    /\ g \in DOMAIN leaf_files /\ p \in DOMAIN leaf_files[g].hdr
    /\ leaf_files' = [ leaf_files EXCEPT ![g].hdr[p] =
                         IF bad_magic THEN [ @ EXCEPT !.magic = 0 ]
                                      ELSE [ @ EXCEPT !.crc_ok = FALSE ] ]
    /\ faults' = faults + 1
    /\ corrupt' = << g, p >>
    /\ UNCHANGED << phase, fptree_id, fptree, new_fptree, sstVars, pending,
                    last, ver, ops, reopens, got >>
    /\ UNCHANGED << concVars, xl, lk >>

\* the record of a table in the filter file or in the index file is damaged
\* while the store is closed
CorruptMeta(t, in_filter) ==
    /\ phase = "closed" /\ faults < MaxFault
    /\ t \in DOMAIN meta_files
    /\ meta_files' = [ meta_files EXCEPT ![t] =
                         IF in_filter THEN [ @ EXCEPT !.filter_ok = FALSE ]
                                      ELSE [ @ EXCEPT !.index_ok = FALSE ] ]
    /\ faults' = faults + 1
    /\ UNCHANGED << phase, fptree_id, fptree, new_fptree, leaf_files,
                    table_files, filters, indexes, table_id, pending, last,
                    ver, ops, reopens, corrupt, got >>
    /\ UNCHANGED << concVars, xl, lk >>

\* a next table id that is the greatest id of the directory itself
next_table_id_last(files) ==
    IF DOMAIN files = {} THEN 0 ELSE SetMax(DOMAIN files)

\* the table id following the table files of the directory
next_table_id(files) ==
    IF DOMAIN files = {} THEN 0 ELSE (SetMax(DOMAIN files) \div 2 + 1) * 2

\* KVS::new up to the loop over the leaf files
OpenBegin ==
    /\ phase = "closed"
    /\ IF load_filters(meta_files).st = "ok" /\ load_indexes(meta_files).st = "ok"
       THEN /\ phase' = "opening"
            /\ filters' = load_filters(meta_files).map
            /\ indexes' = load_indexes(meta_files).map
            /\ table_id' = next_table_id(table_files)
            /\ pending' = DOMAIN leaf_files
       ELSE /\ phase' = "error"
            /\ filters' = EmptyMap /\ indexes' = EmptyMap
            /\ table_id' = next_table_id(table_files)
            /\ UNCHANGED pending
    /\ UNCHANGED << fptree_id, fptree, new_fptree, diskVars, last, ver, ops,
                    reopens, faults, corrupt, got >>
    /\ UNCHANGED << concVars, xl, lk >>

\* a loop turn that removes the leaf file before the register has succeeded
OpenFlushedRemoveFirst(g, io, R) ==
    IF io = "flush_err"
    THEN /\ phase' = "closed" /\ faults' = faults + 1
         /\ filters' = EmptyMap /\ indexes' = EmptyMap
         /\ pending' = {}
         /\ UNCHANGED << diskVars, table_id >>
    ELSE IF R.st # "ok"
    THEN /\ phase' = R.st
         /\ UNCHANGED << diskVars, filters, indexes, table_id, pending, faults >>
    ELSE IF io = "register_err"
    THEN /\ phase' = "closed" /\ faults' = faults + 1
         /\ table_files' = MapPut(table_files, table_id, R.info.records)
         /\ table_id' = table_id + 2
         /\ filters' = EmptyMap /\ indexes' = EmptyMap
         /\ pending' = {}
         /\ leaf_files' = MapDel(leaf_files, g)
         /\ UNCHANGED meta_files
    ELSE /\ table_files' = MapPut(table_files, table_id, R.info.records)
         /\ table_id' = table_id + 2
         /\ Register(R.info)
         /\ leaf_files' = MapDel(leaf_files, g)
         /\ pending' = pending \ {g}
         /\ UNCHANGED << phase, faults >>

\* one turn of the loop of KVS::new: flush_with_file (with result R),
\* register, remove_file
OpenFlushed(g, io, R) ==
    IF io = "flush_err"
    THEN /\ phase' = "closed" /\ faults' = faults + 1
         /\ filters' = EmptyMap /\ indexes' = EmptyMap
         /\ pending' = {}
         /\ UNCHANGED << diskVars, table_id >>
    ELSE IF R.st # "ok"
    THEN /\ phase' = R.st
         /\ UNCHANGED << diskVars, filters, indexes, table_id, pending, faults >>
    ELSE IF io = "register_err"
    THEN /\ phase' = "closed" /\ faults' = faults + 1
         /\ table_files' = MapPut(table_files, table_id, R.info.records)
         /\ table_id' = table_id + 2
         /\ filters' = EmptyMap /\ indexes' = EmptyMap
         /\ pending' = {}
         /\ UNCHANGED << leaf_files, meta_files >>
    ELSE /\ table_files' = MapPut(table_files, table_id, R.info.records)
         /\ table_id' = table_id + 2
         /\ Register(R.info)
         /\ leaf_files' = MapDel(leaf_files, g)
         /\ pending' = pending \ {g}
         /\ UNCHANGED << phase, faults >>

OpenFlush(g, io) ==
    /\ phase = "opening" /\ g \in pending
    /\ OpenFlushed(g, io, flush_with_file(leaf_files[g], table_id))
    /\ UNCHANGED << fptree_id, fptree, new_fptree, last, ver, ops, reopens,
                    corrupt, got >>
    /\ UNCHANGED << concVars, xl, lk >>

\* the end of KVS::new: FPTreeManager::new creates tree 0
OpenFinish ==
    /\ phase = "opening" /\ pending = {}
    /\ phase' = "open"
    /\ fptree_id' = 0
    /\ fptree' = << FPTreeNew(0) >>
    /\ new_fptree' = <<>>
    /\ UNCHANGED << diskVars, filters, indexes, table_id, pending, last, ver,
                    ops, reopens, faults, corrupt, got >>
    /\ UNCHANGED << concVars, xl, lk >>

\* ---------------------------------------------------------------------
\* The locks of the store
\* ---------------------------------------------------------------------
\* A lock is named by its owner: the manager's fptree_id, new_fptree_ptr and
\* fptree_ptr, the flush writer of the handle, and for the tree of
\* generation g the RwLock around the tree, its root_ptr, its mutex, its
\* root_split_count and the lock of each node.  Nodes of a tree: 1 is the
\* first leaf, 2 the sibling and 3 the inner root a root split makes.
MaxLockCalls == 3
LockGens == 0..MaxLockCalls
LockSizes == { 1, ExtLeafSize }
NoTree == 0 - 1

Lk(name, g, i) == [ n |-> name, g |-> g, i |-> i ]
LId == Lk("fptree_id", 0, 0)
LNew == Lk("new_fptree_ptr", 0, 0)
LCur == Lk("fptree_ptr", 0, 0)
LFw == Lk("flush_writer", 0, 0)
LTree(g) == Lk("fptree", g, 0)
LRoot(g) == Lk("root_ptr", g, 0)
LMutex(g) == Lk("mutex", g, 0)
LCount(g) == Lk("root_split_count", g, 0)
LNode(g, i) == Lk("node", g, i)

\* what a thread has still to do in its call: read() or write()/lock() of
\* a lock, the drop of its guard, or a step of the code between them
LRead(l) == [ op |-> "r", l |-> l ]
LWrite(l) == [ op |-> "w", l |-> l ]
LDrop(l) == [ op |-> "u", l |-> l ]
LDo(name) == [ op |-> name, l |-> LId ]

\* a thread: st is "idle", "run" or "hang" (inside a loop that never ends);
\* held are the guards it holds, as [l, m] with m "r" or "w"
LIdle ==
    [ st |-> "idle", todo |-> <<>>, held |-> {}, g |-> 0, path |-> <<>>,
      node |-> 0, is_root_locked |-> FALSE, need |-> FALSE, size |-> 0 ]

\* pref is the priority policy of the RwLocks, which the platform chooses:
\* "reader", or "writer" when a waiting writer keeps new readers out
LockInit ==
    [ th |-> [ t \in Threads |-> LIdle ],
      new |-> NoTree, cur |-> 0, id |-> 0,
      depth |-> [ g \in LockGens |-> 1 ],
      count |-> [ g \in LockGens |-> 0 ],
      calls |-> 0, pref |-> "none" ]

\* the write loop of Leaf::insert for a pair of n units on the leaf X
RECURSIVE InsertLoop(_, _)
InsertLoop(X, n) ==
    LET W == write_data_sized(X.t, X.cur, X.tail,
                              [ k |-> 1, v |-> 1, len |-> n ])
        A == allocate_ext_page(X.t, X.id)
    IN  IF W.some
        THEN "ok"
        ELSE IF A.st # "ok"
             THEN A.st
             ELSE InsertLoop([ X EXCEPT !.t = A.t, !.cur = A.id,
                                        !.tail = INITIAL_TAIL_OFFSET ], n)

\* the loop on the first leaf of a new tree
InsertOutcome(n) ==
    InsertLoop([ t |-> XInit.t, id |-> XInit.leaf.id, cur |-> XInit.leaf.id,
                 tail |-> XInit.leaf.header.tail_offset ], n)

Init ==
    /\ phase = "open"
    /\ fptree_id = 0
    /\ fptree = << FPTreeNew(0) >>
    /\ new_fptree = <<>>
    /\ leaf_files = EmptyMap
    /\ table_files = EmptyMap
    /\ meta_files = EmptyMap
    /\ filters = EmptyMap
    /\ indexes = EmptyMap
    /\ table_id = 0
    /\ pending = {}
    /\ last = [ k \in Keys |-> 0 ]
    /\ ver = 0
    /\ ops = 0
    /\ reopens = 0
    /\ faults = 0
    /\ corrupt = <<>>
    /\ got = NoGot
    /\ thr = [ t \in Threads |-> Idle ]
    /\ chan = <<>>
    /\ worker = [ pc |-> "recv", info |-> <<>> ]
    /\ gets = 0
    /\ xl = XInit
    /\ lk = LockInit

Next ==
    \/ \E k \in Keys : Put(k)
    \/ \E k \in Keys : Delete(k)
    \/ \E k \in Keys : Get(k)
    \/ Close
    \/ \E g \in DOMAIN leaf_files : \E p \in DOMAIN leaf_files[g].hdr :
          \E bad_magic \in BOOLEAN : Corrupt(g, p, bad_magic)
    \/ \E t \in DOMAIN meta_files : \E in_filter \in BOOLEAN :
          CorruptMeta(t, in_filter)
    \/ OpenBegin
    \/ \E g \in pending : \E io \in IoOutcomes : OpenFlush(g, io)
    \/ OpenFinish

Spec == Init /\ [][Next]_vars

\* what a read of key k has to return after the writes made so far
Expected(k) == IF last[k] = 0 THEN NoValue ELSE last[k]

\* ---------------------------------------------------------------------
\* KVS shared by client threads, with the flush worker of flush_writer.rs
\* ---------------------------------------------------------------------
\* the key range of a thread (concurrent_insert: disjoint ranges)
Owner(k) == (k % NumThreads) + 1

\* the threads holding new_fptree_ptr.read() inside FPTreeManager::put,
\* delete or get
InManager == { t \in Threads : thr[t].pc \in {"put", "get"} }

\* Arc::strong_count(&fptree_written): the manager's own reference and the
\* clone of every put and delete that is writing to the current tree
strong_count ==
    1 + Cardinality({ t \in Threads : thr[t].pc = "put" /\ thr[t].tree = "cur" })

TreeOf(which) == IF which = "new" THEN new_fptree[1] ELSE fptree[1]

\* the thread records after thread t has written v to key k: t goes to pc,
\* and the gets of k in flight may return v
Written(t, k, v, pc) ==
    [ u \in Threads |->
        IF u = t
        THEN [ Idle EXCEPT !.pc = pc ]
        ELSE IF thr[u].pc \in {"get", "sst"} /\ thr[u].k = k
             THEN [ thr[u] EXCEPT !.adm = @ \cup {NonEmpty(v)} ]
             ELSE thr[u] ]

CWrite(M) == fptree' = M.cur /\ new_fptree' = M.new

\* KVS::put enters FPTreeManager::put: new_fptree_ptr is read-locked and the
\* tree to write to is selected
CPut(t, k) ==
    /\ phase = "open" /\ thr[t].pc = "idle" /\ ops < MaxConcOps
    /\ Owner(k) = t
    /\ ver' = ver + 1
    /\ ops' = ops + 1
    /\ thr' = [ thr EXCEPT ![t] =
                 [ Idle EXCEPT !.pc = "put", !.k = k, !.v = ver + 1,
                               !.tree = ManagerRoute(new_fptree) ] ]
    /\ UNCHANGED << xl, lk >>
    /\ UNCHANGED << phase, fptree_id, fptree, new_fptree, sstVars, leaf_files,
                    pending, last, reopens, faults, corrupt, got, chan, worker,
                    gets >>

\* FPTree::put (or delete) on the selected tree, and the return of
\* FPTreeManager::put; KVS::delete sends no signal
CApply(t) ==
    /\ phase = "open" /\ thr[t].pc = "put"
    /\ CWrite(ManagerPutTo(fptree, new_fptree, thr[t].tree, thr[t].k, thr[t].v))
    /\ last' = [ last EXCEPT ![thr[t].k] = thr[t].v ]
    /\ thr' = Written(t, thr[t].k, thr[t].v,
                      IF thr[t].v = 0 THEN "idle" ELSE "signal")
    /\ UNCHANGED << xl, lk >>
    /\ UNCHANGED << phase, fptree_id, sstVars, leaf_files, pending, ver, ops,
                    reopens, faults, corrupt, got, chan, worker, gets >>

\* the rest of KVS::put: a TryFlush signal when need_flush
CSignal(t) ==
    /\ phase = "open" /\ thr[t].pc = "signal"
    /\ chan' = IF need_flush(fptree, new_fptree)
               THEN Append(chan, "TryFlush") ELSE chan
    /\ thr' = [ thr EXCEPT ![t] = Idle ]
    /\ UNCHANGED << xl, lk >>
    /\ UNCHANGED << phase, fptree_id, fptree, new_fptree, sstVars, leaf_files,
                    pending, last, ver, ops, reopens, faults, corrupt, got,
                    worker, gets >>

\* KVS::delete enters FPTreeManager::delete
CDelete(t, k) ==
    /\ phase = "open" /\ thr[t].pc = "idle" /\ ops < MaxConcOps
    /\ Owner(k) = t
    /\ ops' = ops + 1
    /\ thr' = [ thr EXCEPT ![t] =
                 [ Idle EXCEPT !.pc = "put", !.k = k, !.v = 0,
                               !.tree = ManagerRoute(new_fptree) ] ]
    /\ UNCHANGED << xl, lk >>
    /\ UNCHANGED << phase, fptree_id, fptree, new_fptree, sstVars, leaf_files,
                    pending, last, ver, reopens, faults, corrupt, got, chan,
                    worker, gets >>

\* KVS::get enters FPTreeManager::get and FPTree::get reads the root pointer
\* of the first tree to ask
CGetBegin(t, k) ==
    /\ phase = "open" /\ thr[t].pc = "idle" /\ gets < MaxGets
    /\ gets' = gets + 1
    /\ thr' = [ thr EXCEPT ![t] =
                 [ pc |-> "get", k |-> k, v |-> 0,
                   tree |-> IF new_fptree # <<>> THEN "new" ELSE "cur",
                   node |-> IF new_fptree # <<>>
                            THEN new_fptree[1].root ELSE fptree[1].root,
                   r |-> NoValue,
                   adm |-> {Expected(k)},
                   quiet |-> /\ ops = MaxConcOps
                             /\ \A u \in Threads \ {t} : thr[u].pc = "idle" ] ]
    /\ UNCHANGED << xl, lk >>
    /\ UNCHANGED << phase, fptree_id, fptree, new_fptree, sstVars, leaf_files,
                    pending, last, ver, ops, reopens, faults, corrupt, got,
                    chan, worker >>

\* the loop of FPTree::get at a leaf that answered r, and the step of
\* FPTreeManager::get that follows
GetAtLeaf(t, r) ==
    IF r # NoValue
    THEN [ thr[t] EXCEPT !.pc = "idle", !.r = NonEmpty(r) ]
    ELSE IF thr[t].tree = "new"
         THEN [ thr[t] EXCEPT !.tree = "cur", !.node = fptree[1].root ]
         ELSE [ thr[t] EXCEPT !.pc = "sst" ]

\* one turn of the loop of FPTree::get: the node is read under its lock
GetAtNode(t, T, n) ==
    IF T.nodes[n].is_leaf
    THEN GetAtLeaf(t, LeafGet(T, n, thr[t].k))
    ELSE [ thr[t] EXCEPT !.node = get_child(T, n, thr[t].k) ]

CGetStep(t) ==
    /\ phase = "open" /\ thr[t].pc = "get"
    /\ thr[t].node # NoNode
    /\ thr' = [ thr EXCEPT ![t] = GetAtNode(t, TreeOf(thr[t].tree), thr[t].node) ]
    /\ UNCHANGED << xl, lk >>
    /\ UNCHANGED << phase, fptree_id, fptree, new_fptree, sstVars, leaf_files,
                    pending, last, ver, ops, reopens, faults, corrupt, got,
                    chan, worker, gets >>

\* the end of KVS::get: SstableManager::get
CGetTable(t) ==
    /\ phase = "open" /\ thr[t].pc = "sst"
    /\ \E v \in SstableGet(SstState, thr[t].k) :
          /\ thr' = [ thr EXCEPT ![t] = [ @ EXCEPT !.pc = "idle", !.r = NonEmpty(v) ] ]
          /\ phase' = IF v = Panic THEN "panic" ELSE phase
    /\ UNCHANGED << xl, lk >>
    /\ UNCHANGED << fptree_id, fptree, new_fptree, sstVars, leaf_files,
                    pending, last, ver, ops, reopens, faults, corrupt, got,
                    chan, worker, gets >>

\* the handle is dropped once the client threads are done: Shutdown is sent
CClose ==
    /\ phase = "open" /\ \A t \in Threads : thr[t].pc = "idle"
    /\ phase' = "closing"
    /\ chan' = Append(chan, "Shutdown")
    /\ UNCHANGED << xl, lk >>
    /\ UNCHANGED << fptree_id, fptree, new_fptree, sstVars, leaf_files,
                    pending, last, ver, ops, reopens, faults, corrupt, got,
                    thr, worker, gets >>

Alive == phase \in {"open", "closing"}

\* the worker takes a TryFlush: prepare_flush with result P, which waits for
\* the write lock of new_fptree_ptr when it installs the new tree
WPrepared(P) ==
    /\ P.new # new_fptree => InManager = {}
    /\ new_fptree' = P.new
    /\ worker' = [ worker EXCEPT !.pc = IF P.some THEN "flush" ELSE "recv" ]

WRecv ==
    /\ Alive /\ worker.pc = "recv" /\ chan # <<>>
    /\ chan' = Tail(chan)
    /\ IF Head(chan) = "Shutdown"
       THEN worker' = [ worker EXCEPT !.pc = "exited" ] /\ UNCHANGED new_fptree
       ELSE WPrepared(prepare_flush(fptree, new_fptree, fptree_id, strong_count))
    /\ UNCHANGED << xl, lk >>
    /\ UNCHANGED << phase, fptree_id, fptree, sstVars, leaf_files, pending,
                    last, ver, ops, reopens, faults, corrupt, got, thr, gets >>

\* FlushWriter::flush with result R; an error or a panic ends the worker
\* thread at the unwrap
WFlushed(io, R) ==
    IF io = "flush_err"
    THEN /\ worker' = [ worker EXCEPT !.pc = "dead" ]
         /\ faults' = faults + 1
         /\ UNCHANGED << table_files, table_id >>
    ELSE IF R.st # "ok"
    THEN /\ worker' = [ worker EXCEPT !.pc = "dead" ]
         /\ UNCHANGED << table_files, table_id, faults >>
    ELSE /\ table_files' = MapPut(table_files, table_id, R.info.records)
         /\ table_id' = table_id + 2
         /\ worker' = [ pc |-> "register", info |-> << R.info >> ]
         /\ UNCHANGED faults

WFlush(io) ==
    /\ Alive /\ worker.pc = "flush" /\ io # "register_err"
    /\ WFlushed(io, flush(fptree[1], table_id))
    /\ UNCHANGED << xl, lk >>
    /\ UNCHANGED << phase, fptree_id, fptree, new_fptree, meta_files, filters,
                    indexes, leaf_files, pending, last, ver, ops, reopens,
                    corrupt, got, thr, chan, gets >>

\* SstableManager::register up to the insert into filters
WRegister(io) ==
    /\ Alive /\ worker.pc = "register" /\ io # "flush_err"
    /\ IF io = "register_err"
       THEN /\ worker' = [ pc |-> "dead", info |-> <<>> ]
            /\ faults' = faults + 1
            /\ UNCHANGED << meta_files, filters >>
       ELSE /\ meta_files' = MapPut(meta_files, worker.info[1].id,
                                    MetaRecord(worker.info[1].filter,
                                               worker.info[1].index))
            /\ filters' = MapPut(filters, worker.info[1].id, worker.info[1].filter)
            /\ worker' = [ worker EXCEPT !.pc = "index" ]
            /\ UNCHANGED faults
    /\ UNCHANGED << xl, lk >>
    /\ UNCHANGED << phase, fptree_id, fptree, new_fptree, table_files, indexes,
                    table_id, leaf_files, pending, last, ver, ops, reopens,
                    corrupt, got, thr, chan, gets >>

\* the end of SstableManager::register: the insert into indexes
WIndex ==
    /\ Alive /\ worker.pc = "index"
    /\ indexes' = MapPut(indexes, worker.info[1].id, worker.info[1].index)
    /\ worker' = [ pc |-> "switch", info |-> <<>> ]
    /\ UNCHANGED << xl, lk >>
    /\ UNCHANGED << phase, fptree_id, fptree, new_fptree, table_files,
                    meta_files, filters, table_id, leaf_files, pending, last,
                    ver, ops, reopens, faults, corrupt, got, thr, chan, gets >>

\* a switch_fptree that leaves fptree_id as it is
WSwitchKeepId ==
    /\ Alive /\ worker.pc = "switch" /\ InManager = {}
    /\ fptree' = new_fptree /\ new_fptree' = <<>>
    /\ worker' = [ worker EXCEPT !.pc = "recv" ]
    /\ UNCHANGED << xl, lk >>
    /\ UNCHANGED << phase, fptree_id, sstVars, leaf_files, pending, last, ver,
                    ops, reopens, faults, corrupt, got, thr, chan, gets >>

\* FPTreeManager::switch_fptree, under the write lock of new_fptree_ptr
WSwitch ==
    /\ Alive /\ worker.pc = "switch" /\ InManager = {}
    /\ fptree' = new_fptree /\ new_fptree' = <<>>
    /\ fptree_id' = fptree_id + 1
    /\ worker' = [ worker EXCEPT !.pc = "recv" ]
    /\ UNCHANGED << xl, lk >>
    /\ UNCHANGED << phase, sstVars, leaf_files, pending, last, ver, ops,
                    reopens, faults, corrupt, got, thr, chan, gets >>

NextConc ==
    \/ \E t \in Threads : \E k \in Keys : CPut(t, k)
    \/ \E t \in Threads : CApply(t)
    \/ \E t \in Threads : CSignal(t)
    \/ \E t \in Threads : \E k \in Keys : CDelete(t, k)
    \/ \E t \in Threads : \E k \in Keys : CGetBegin(t, k)
    \/ \E t \in Threads : CGetStep(t)
    \/ \E t \in Threads : CGetTable(t)
    \/ CClose
    \/ WRecv
    \/ \E io \in IoOutcomes : WFlush(io)
    \/ \E io \in IoOutcomes : WRegister(io)
    \/ WIndex
    \/ WSwitch

SpecConc == Init /\ [][NextConc]_vars

\* ---------------------------------------------------------------------
\* Leaf::insert with extension pages, one loop iteration at a time
\* ---------------------------------------------------------------------
\* xl.pc is "idle", "write" (inside the write loop of an insert), "hang" (the
\* walk of allocate_ext_page never ends) or "panic".

\* insert, steps 1 and 2: the old version of the key is invalidated in the
\* in-memory header; a leaf whose bitmap is then full would split, which
\* this leaf is not taken through
XPut(k, n) ==
    /\ xl.pc = "idle"
    /\ xl.puts < MaxExtPuts
    /\ LET found == ExtKeySlots(xl, k)
           header == IF found = {} THEN xl.leaf.header
                     ELSE unset_slot(xl.leaf.header, SetMin(found))
       IN  /\ header.bitmap # Slots
           /\ xl' = [ xl EXCEPT !.leaf.header = header,
                                !.pc = "write", !.key = k, !.val = xl.puts + 1,
                                !.len = n, !.allocs = 0, !.puts = @ + 1,
                                !.got = XInit.got ]
    /\ UNCHANGED << kvsVars, lk >>

XWritten(W) ==
    LET h == xl.leaf.header
        slot == get_empty_slot(h)
        header == set_slot(h, slot, calc_key_hash(xl.key),
                           [ page |-> xl.leaf.cur, offset |-> h.tail_offset,
                             key_size |-> KeyLen(xl.key), len |-> xl.len ],
                           W.tail)
    IN  [ xl EXCEPT !.t = commit_header(W.t, xl.leaf.id, header),
                    !.leaf.header = header,
                    !.pc = "idle" ]

\* insert, step 3 when write_data returns Some, and step 4
XWrite ==
    /\ xl.pc = "write"
    /\ LET W == write_data_sized(xl.t, xl.leaf.cur, xl.leaf.header.tail_offset,
                                 [ k |-> xl.key, v |-> xl.val, len |-> xl.len ])
       IN  /\ W.some
           /\ xl' = XWritten(W)
    /\ UNCHANGED << kvsVars, lk >>

XExtended(A) ==
    IF A.st # "ok"
    THEN [ xl EXCEPT !.t = A.t, !.pc = A.st ]
    ELSE [ xl EXCEPT !.t = A.t,
                     !.leaf.cur = A.id,
                     !.leaf.header.tail_offset = INITIAL_TAIL_OFFSET,
                     !.leaf.header.ext = A.id,
                     !.allocs = @ + 1 ]

\* insert, step 3 when write_data returns None: the chain is extended and
\* the write is tried again
XExtend ==
    /\ xl.pc = "write"
    /\ ~write_data_sized(xl.t, xl.leaf.cur, xl.leaf.header.tail_offset,
                         [ k |-> xl.key, v |-> xl.val, len |-> xl.len ]).some
    /\ xl' = XExtended(allocate_ext_page(xl.t, xl.leaf.id))
    /\ UNCHANGED << kvsVars, lk >>

XGet(k) ==
    /\ xl.pc = "idle"
    /\ xl' = [ xl EXCEPT !.got = ExtGet(xl, k) ]
    /\ UNCHANGED << kvsVars, lk >>

NextExt ==
    \/ \E k \in Keys, n \in UnitSizes : XPut(k, n)
    \/ XWrite
    \/ XExtend
    \/ \E k \in Keys : XGet(k)

SpecExt == Init /\ [][NextExt]_vars

\* ---------------------------------------------------------------------
\* The calls of the handle, one lock acquisition at a time
\* ---------------------------------------------------------------------
LHolders(l, m) == { t \in Threads : [ l |-> l, m |-> m ] \in lk.th[t].held }

LWaitsWrite(t, l) ==
    /\ lk.th[t].st = "run"
    /\ lk.th[t].todo # <<>>
    /\ Head(lk.th[t].todo) = LWrite(l)

\* RwLock::read returns: no writer holds the lock and, under the writer
\* policy, none waits for it
LCanRead(t, l) ==
    /\ LHolders(l, "w") = {}
    /\ lk.pref = "writer" => \A u \in Threads \ {t} : ~LWaitsWrite(u, l)

\* RwLock::write and Mutex::lock return: nobody holds the lock
LCanWrite(t, l) == LHolders(l, "w") \cup LHolders(l, "r") = {}

\* thread t is at the step named op
LAt(t, op) ==
    /\ lk.th[t].st = "run"
    /\ lk.th[t].todo # <<>>
    /\ Head(lk.th[t].todo).op = op

LRest(t) == Tail(lk.th[t].todo)

\* the call returns when nothing is left to do
LReturned(r) == IF r.todo = <<>> THEN LIdle ELSE r

\* KVS::put, KVS::get and KVS::delete are called by thread t
LCall(t, op, n, p) ==
    /\ lk.th[t].st = "idle"
    /\ lk.calls < MaxLockCalls
    /\ lk.pref \in { "none", p }
    /\ op # "put" => n = 1
    /\ lk' = [ lk EXCEPT
          !.calls = @ + 1,
          !.pref = p,
          !.th[t] = [ LIdle EXCEPT
              !.st = "run",
              !.size = n,
              !.todo =
                 CASE op = "put" ->
                        << LRead(LNew), LDo("manager_put"),
                           LRead(LNew), LDo("need_flush"),
                           LDo("kvs_need_flush") >>
                   [] op = "delete" ->
                        << LRead(LNew), LDo("manager_put") >>
                   [] op = "get" ->
                        << LRead(LNew), LDo("manager_get"),
                           LDo("manager_get_cur") >> ] ]
    /\ UNCHANGED << kvsVars, xl >>

\* read(), write() or lock() returns the guard
LAcquire(t) ==
    /\ \/ LAt(t, "r") /\ LCanRead(t, Head(lk.th[t].todo).l)
       \/ LAt(t, "w") /\ LCanWrite(t, Head(lk.th[t].todo).l)
    /\ lk' = [ lk EXCEPT
          !.th[t].held = @ \cup { [ l |-> Head(lk.th[t].todo).l,
                                    m |-> Head(lk.th[t].todo).op ] },
          !.th[t].todo = Tail(@) ]
    /\ UNCHANGED << kvsVars, xl >>

\* a guard is dropped; at the end of FPTree::put the guards of the nodes
\* and of the root pointer are dropped together
LRelease(t) ==
    /\ \/ LAt(t, "u") \/ LAt(t, "drop_nodes")
    /\ lk' = [ lk EXCEPT !.th[t] = LReturned(
          [ @ EXCEPT
              !.held = IF Head(lk.th[t].todo).op = "u"
                       THEN { h \in @ : h.l # Head(lk.th[t].todo).l }
                       ELSE { h \in @ : h.l.n \notin { "node", "root_ptr" } },
              !.todo = Tail(@) ]) ]
    /\ UNCHANGED << kvsVars, xl >>

\* FPTreeManager::put and delete with locked_new held: the tree is chosen
LManagerPut(t) ==
    /\ LAt(t, "manager_put")
    /\ LET g == IF lk.new # NoTree THEN lk.new ELSE lk.cur
           tree == << LRead(LTree(g)), LWrite(LRoot(g)), LWrite(LMutex(g)),
                      LDo("descend"), LDrop(LTree(g)) >>
       IN  lk' = [ lk EXCEPT
              !.th[t].g = g,
              !.th[t].todo =
                 IF lk.new # NoTree
                 THEN tree \o << LDrop(LNew) >> \o LRest(t)
                 ELSE << LRead(LCur) >> \o tree
                        \o << LDrop(LCur), LDrop(LNew) >> \o LRest(t) ]
    /\ UNCHANGED << kvsVars, xl >>

\* the read locks the descent of FPTree::put takes on the way down
LDescentReads(g, path) ==
    IF Len(path) = 1
    THEN << LRead(LNode(g, path[1])), LDrop(LNode(g, path[1])) >>
    ELSE << LRead(LNode(g, path[1])), LDrop(LNode(g, path[1])),
            LRead(LNode(g, path[1])), LDrop(LNode(g, path[1])),
            LRead(LNode(g, path[2])), LDrop(LNode(g, path[2])) >>

\* the write locks of phase 1, each followed by the may_need_split test
LDescentWrites(g, path) ==
    IF Len(path) = 1
    THEN << LWrite(LNode(g, path[1])), LDo("may_need_split") >>
    ELSE << LWrite(LNode(g, path[1])), LDo("may_need_split"),
            LWrite(LNode(g, path[2])), LDo("may_need_split") >>

\* FPTree::put, phase 1, with root_ptr and the mutex held: the path from
\* the root to the leaf of the key
LDescend(t, leaf) ==
    /\ LAt(t, "descend")
    /\ LET g == lk.th[t].g
           path == IF lk.depth[g] = 1 THEN << 1 >> ELSE << 3, leaf >>
       IN  lk' = [ lk EXCEPT
              !.th[t].path = path,
              !.th[t].node = 0,
              !.th[t].is_root_locked = TRUE,
              !.th[t].todo = LDescentReads(g, path) \o LDescentWrites(g, path)
                               \o << LDrop(LMutex(g)), LDo("phase2") >>
                               \o LRest(t) ]
    /\ UNCHANGED << kvsVars, xl >>

\* a node that cannot split releases the nodes locked above it
LMayNeedSplit(t, may) ==
    /\ LAt(t, "may_need_split")
    /\ LET g == lk.th[t].g
           above == { LNode(g, lk.th[t].path[j]) : j \in 1..lk.th[t].node }
       IN  lk' = [ lk EXCEPT
              !.th[t].node = @ + 1,
              !.th[t].is_root_locked = @ /\ may,
              !.th[t].held = IF may THEN @ ELSE { h \in @ : h.l \notin above },
              !.th[t].todo = Tail(@) ]
    /\ UNCHANGED << kvsVars, xl >>

\* FPTree::put, phase 2: the root pointer is dropped unless the root may split
LPhase2(t) ==
    /\ LAt(t, "phase2")
    /\ lk' = [ lk EXCEPT !.th[t].todo =
          IF lk.th[t].is_root_locked
          THEN << LDo("insert") >> \o LRest(t)
          ELSE << LDrop(LRoot(lk.th[t].g)), LDo("insert") >> \o LRest(t) ]
    /\ UNCHANGED << kvsVars, xl >>

\* the insert into the leaf: its write loop ends or not; a root leaf that
\* splits gets a sibling and a new root above it
LInsert(t, split) ==
    /\ LAt(t, "insert")
    /\ LET g == lk.th[t].g
           root_split == /\ split /\ lk.th[t].is_root_locked
                         /\ lk.depth[g] = 1
       IN  IF InsertOutcome(lk.th[t].size) # "ok"
           THEN lk' = [ lk EXCEPT !.th[t].st = "hang", !.th[t].todo = <<>> ]
           ELSE lk' = [ lk EXCEPT
                   !.depth[g] = IF root_split THEN 2 ELSE @,
                   !.th[t].todo =
                      IF root_split
                      THEN << LWrite(LCount(g)), LDo("split_root"),
                              LDrop(LCount(g)), LDo("drop_nodes") >>
                             \o LRest(t)
                      ELSE << LDo("drop_nodes") >> \o LRest(t) ]
    /\ UNCHANGED << kvsVars, xl >>

\* split_root with root_split_count locked
LSplitRoot(t) ==
    /\ LAt(t, "split_root")
    /\ lk' = [ lk EXCEPT !.count[lk.th[t].g] = @ + 1,
                         !.th[t].todo = Tail(@) ]
    /\ UNCHANGED << kvsVars, xl >>

\* FPTreeManager::need_flush with new_fptree_ptr read: false when a new tree
\* is installed, else the root split count of the current tree is read
LNeedFlush(t) ==
    /\ \/ LAt(t, "need_flush") \/ LAt(t, "get_root_split_count")
    /\ LET g == lk.cur
       IN  lk' = [ lk EXCEPT !.th[t] =
              IF Head(lk.th[t].todo).op = "get_root_split_count"
              THEN [ @ EXCEPT
                       !.need = lk.count[lk.th[t].g] >= root_split_threshold,
                       !.todo = Tail(@) ]
              ELSE IF lk.new # NoTree
              THEN [ @ EXCEPT !.need = FALSE,
                              !.todo = << LDrop(LNew) >> \o LRest(t) ]
              ELSE [ @ EXCEPT
                       !.g = g,
                       !.todo = << LRead(LCur), LRead(LTree(g)),
                                   LWrite(LCount(g)),
                                   LDo("get_root_split_count"),
                                   LDrop(LCount(g)), LDrop(LTree(g)),
                                   LDrop(LCur), LDrop(LNew) >>
                                  \o LRest(t) ] ]
    /\ UNCHANGED << kvsVars, xl >>

\* KVS::put after need_flush: prepare_flush is called or the put returns
LKvsNeedFlush(t) ==
    /\ LAt(t, "kvs_need_flush")
    /\ lk' = [ lk EXCEPT !.th[t] = LReturned(
          [ @ EXCEPT !.todo =
              IF lk.th[t].need
              THEN << LWrite(LId), LRead(LNew), LDo("need_flush"),
                      LDo("prepare_flush") >> \o LRest(t)
              ELSE LRest(t) ]) ]
    /\ UNCHANGED << kvsVars, xl >>

\* FPTreeManager::prepare_flush after its need_flush, and with
\* new_fptree_ptr locked for writing: the new tree is installed
LPrepareFlush(t) ==
    /\ \/ LAt(t, "prepare_flush") \/ LAt(t, "set_new_fptree")
    /\ IF Head(lk.th[t].todo).op = "prepare_flush"
       THEN lk' = [ lk EXCEPT !.th[t].todo =
               IF lk.th[t].need
               THEN << LWrite(LNew), LDo("set_new_fptree") >> \o LRest(t)
               ELSE << LDrop(LId) >> \o LRest(t) ]
       ELSE IF lk.new # NoTree
       THEN lk' = [ lk EXCEPT !.th[t].todo =
               << LDrop(LNew), LDrop(LId) >> \o LRest(t) ]
       ELSE lk' = [ lk EXCEPT
               !.new = lk.id + 1,
               !.th[t].todo =
                  << LRead(LCur), LRead(LTree(lk.cur)), LDrop(LTree(lk.cur)),
                     LDrop(LCur), LDrop(LNew), LDrop(LId),
                     LWrite(LFw), LDo("flush") >> \o LRest(t) ]
    /\ UNCHANGED << kvsVars, xl >>

\* FlushWriter::flush and register under the lock of the flush writer,
\* then switch_fptree is called, or the put returns the I/O error
LFlush(t, io) ==
    /\ LAt(t, "flush")
    /\ lk' = [ lk EXCEPT !.th[t].todo =
          IF io = "ok"
          THEN << LDrop(LFw), LWrite(LId), LWrite(LNew), LWrite(LCur),
                  LDo("switch_fptree"), LDrop(LCur), LDo("clear_new_fptree"),
                  LDrop(LNew), LDrop(LId) >> \o LRest(t)
          ELSE << LDrop(LFw) >> \o LRest(t) ]
    /\ UNCHANGED << kvsVars, xl >>

\* FPTreeManager::switch_fptree: the pointer is set, then the id and the
\* new tree slot
LSwitch(t) ==
    /\ \/ LAt(t, "switch_fptree") \/ LAt(t, "clear_new_fptree")
    /\ IF Head(lk.th[t].todo).op = "switch_fptree"
       THEN lk' = [ lk EXCEPT !.cur = lk.new, !.th[t].todo = Tail(@) ]
       ELSE lk' = [ lk EXCEPT !.id = @ + 1, !.new = NoTree,
                              !.th[t].todo = Tail(@) ]
    /\ UNCHANGED << kvsVars, xl >>

\* the locks of FPTree::get on tree g
LTreeGetLocks(g) ==
    << LRead(LTree(g)), LRead(LRoot(g)), LDo("get_root"), LDrop(LTree(g)) >>

\* FPTreeManager::get with locked_new held: the new tree is searched if
\* there is one, then the current tree unless the key was found
LManagerGet(t, found) ==
    /\ \/ LAt(t, "manager_get") \/ LAt(t, "manager_get_cur")
    /\ IF Head(lk.th[t].todo).op = "manager_get"
       THEN lk' = [ lk EXCEPT
               !.th[t].g = IF lk.new # NoTree THEN lk.new ELSE @,
               !.th[t].todo = IF lk.new # NoTree
                              THEN LTreeGetLocks(lk.new) \o LRest(t)
                              ELSE LRest(t) ]
       ELSE /\ found => lk.th[t].path # <<>>
            /\ lk' = [ lk EXCEPT
                  !.th[t].g = lk.cur,
                  !.th[t].todo =
                     IF found
                     THEN << LDrop(LNew) >> \o LRest(t)
                     ELSE << LRead(LCur) >> \o LTreeGetLocks(lk.cur)
                            \o << LDrop(LCur), LDrop(LNew) >> \o LRest(t) ]
    /\ UNCHANGED << kvsVars, xl >>

\* FPTree::get: the root pointer is cloned and dropped, then each node is
\* read-locked while its child is looked up
LTreeGet(t, child) ==
    /\ \/ LAt(t, "get_root") \/ LAt(t, "get_node")
    /\ LET g == lk.th[t].g
           root == IF lk.depth[g] = 1 THEN 1 ELSE 3
           node == lk.th[t].node
       IN  IF Head(lk.th[t].todo).op = "get_root"
           THEN lk' = [ lk EXCEPT
                   !.th[t].node = root,
                   !.th[t].path = << root >>,
                   !.th[t].todo = << LDrop(LRoot(g)), LRead(LNode(g, root)),
                                     LDo("get_node") >> \o LRest(t) ]
           ELSE IF node # 3
           THEN lk' = [ lk EXCEPT
                   !.th[t].todo = << LDrop(LNode(g, node)) >> \o LRest(t) ]
           ELSE lk' = [ lk EXCEPT
                   !.th[t].node = child,
                   !.th[t].todo = << LDrop(LNode(g, 3)),
                                     LRead(LNode(g, child)),
                                     LDo("get_node") >> \o LRest(t) ]
    /\ UNCHANGED << kvsVars, xl >>

\* the steps of thread t inside a call
LStep(t) ==
    \/ LAcquire(t)
    \/ LRelease(t)
    \/ LManagerPut(t)
    \/ \E leaf \in 1..2 : LDescend(t, leaf)
    \/ \E may \in BOOLEAN : LMayNeedSplit(t, may)
    \/ LPhase2(t)
    \/ \E split \in BOOLEAN : LInsert(t, split)
    \/ LSplitRoot(t)
    \/ LNeedFlush(t)
    \/ LKvsNeedFlush(t)
    \/ LPrepareFlush(t)
    \/ \E io \in { "ok", "err" } : LFlush(t, io)
    \/ LSwitch(t)
    \/ \E found \in BOOLEAN : LManagerGet(t, found)
    \/ \E child \in 1..2 : LTreeGet(t, child)

NextLock ==
    \/ \E t \in Threads, op \in { "put", "get", "delete" }, n \in LockSizes,
          p \in { "reader", "writer" } : LCall(t, op, n, p)
    \/ \E t \in Threads : LStep(t)

SpecLock == Init /\ [][NextLock]_vars

\* every thread inside a call is scheduled again and again
SpecLockFair == SpecLock /\ \A t \in Threads : WF_vars(LStep(t))

\* ---------------------------------------------------------------------
\* One tree grown by puts and deletes, with no flush
\* ---------------------------------------------------------------------
\* FPTree::put and FPTree::delete on the tree of the manager, over more keys
\* than the clients of Spec use, so that inner nodes split as well
TreeKeys == 1..NumTreeKeys

treeVars == << phase, fptree_id, new_fptree, leaf_files, table_files,
               meta_files, filters, indexes, table_id, pending, last, reopens,
               faults, corrupt, got, thr, chan, worker, gets, xl, lk >>

TPut(k) ==
    /\ ops < MaxTreeOps
    /\ fptree' = << FPTreePut(fptree[1], k, ver + 1) >>
    /\ ver' = ver + 1
    /\ ops' = ops + 1
    /\ UNCHANGED treeVars

TDelete(k) ==
    /\ ops < MaxTreeOps
    /\ fptree' = << FPTreePut(fptree[1], k, 0) >>
    /\ ops' = ops + 1
    /\ UNCHANGED << ver, treeVars >>

NextTree ==
    \/ \E k \in TreeKeys : TPut(k)
    \/ \E k \in TreeKeys : TDelete(k)

SpecTree == Init /\ [][NextTree]_vars

\* ---------------------------------------------------------------------
\* Properties
\* ---------------------------------------------------------------------
\* C1: on one handle, with no I/O error, a get returns the value of the last
\* put of its key, and None when the key was deleted last or never written.
C1_RoundTrip ==
    (got.k # 0 /\ reopens = 0 /\ faults = 0) => got.r = Expected(got.k)

\* C2: a get started after a put of its key has returned returns the value of
\* that put or of a later write of the key, also when other threads put other
\* keys meanwhile; stated for the runs of puts and gets, and for the gets
\* that end before any flush cycle starts.
C2_Visibility ==
    \A t \in Threads :
        (/\ thr[t].pc = "idle" /\ thr[t].k # 0
         /\ ver = ops /\ fptree_id = 0 /\ new_fptree = <<>>)
            => thr[t].r \in thr[t].adm

\* C3: at every point of a run of client threads and flush cycles with no
\* I/O error, a get of a key whose last write is a put returns that value.
C3_FlushAtomicity ==
    (phase = "open" /\ faults = 0) =>
        \A k \in Keys :
            last[k] # 0 => \A g \in KVSGet(k) : g.r = last[k]

\* C4: after a close and an open with no I/O error and no corruption, the
\* open does not fail and a get returns the value of the last put of its key.
C4_Persistence ==
    (reopens > 0 /\ faults = 0 /\ \E k \in Keys : last[k] # 0)
        => /\ phase \notin {"panic", "hang"}
           /\ (got.k # 0 /\ last[got.k] # 0) => got.r = last[got.k]

\* the values a tree holds for a key in the set slots of its leaves
TreeRecords(T, key) ==
    { read_data(T, T.nodes[x[1]].id, T.nodes[x[1]].header.kv_info[x[2]].offset).v :
        x \in { y \in (1..Len(T.nodes)) \X Slots :
                  /\ T.nodes[y[1]].is_leaf
                  /\ is_slot_set(T.nodes[y[1]].header, y[2])
                  /\ read_data(T, T.nodes[y[1]].id,
                               T.nodes[y[1]].header.kv_info[y[2]].offset).k = key } }

\* the values the registered tables hold for a key
TableRecords(tid, key) ==
    { table_files[tid][i].v :
        i \in { j \in 1..Len(table_files[tid]) : table_files[tid][j].k = key } }

NewTreeRecords(key) ==
    IF new_fptree = <<>> THEN {} ELSE TreeRecords(new_fptree[1], key)

\* C5: once the threads have finished putting their own keys, with no I/O
\* error, a get returns the last value its key was given.
C5_DisjointWriters ==
    \A t \in Threads :
        (/\ thr[t].pc = "idle" /\ thr[t].k # 0 /\ thr[t].quiet
         /\ ver = ops /\ faults = 0)
            => thr[t].r = Expected(thr[t].k)

\* C6: the result of a get is the record of the new tree when the new tree
\* holds one, else the record of the current tree when that tree holds one,
\* else it comes from the tables; an empty record is reported as None
\* whatever the older tiers hold.
C6_TierPrecedence ==
    got.k # 0 =>
        IF NewTreeRecords(got.k) # {}
        THEN /\ got.tier = "tree"
             /\ { NonEmpty(v) : v \in NewTreeRecords(got.k) } = {got.r}
        ELSE IF TreeRecords(fptree[1], got.k) # {}
        THEN /\ got.tier = "tree"
             /\ { NonEmpty(v) : v \in TreeRecords(fptree[1], got.k) } = {got.r}
        ELSE /\ got.tier = "table"
             /\ \/ got.r \in {NoValue, Panic}
                \/ \E t \in DOMAIN filters : got.r \in TableRecords(t, got.k)

\* C6 witness: a get answered None by a tombstone of the new tree while the
\* current tree and a registered table both hold a value for the key
C6_Witness ==
    /\ got.k # 0 /\ got.r = NoValue
    /\ NewTreeRecords(got.k) = {0}
    /\ \E v \in TreeRecords(fptree[1], got.k) : v # 0
    /\ \E t \in DOMAIN filters : \E v \in TableRecords(t, got.k) : v # 0

\* the record of the newest registered table that contains the key
NewestRecord(key) ==
    LET holders == { t \in DOMAIN filters : TableRecords(t, key) # {} }
    IN  IF holders = {}
        THEN NoValue
        ELSE get_from_table(table_files[SetMax(holders)], key, 0)

\* C7: a get answered by the tables returns the record of the table with the
\* greatest id among the registered tables containing the key, and None when
\* no registered table contains it.
C7_NewestTableWins ==
    (got.k # 0 /\ got.tier = "table") => got.r = NonEmpty(NewestRecord(got.k))

\* C8: after a committed leaf header was damaged on disk, the open that
\* follows does not fail.
C8_CorruptHeaderRecovery ==
    (corrupt # <<>> /\ fptree = <<>>) => phase \notin {"panic", "hang"}

\* C9: an open that has returned has left no earlier leaf file behind; a leaf
\* file is removed during the open only in the step that registers the table
\* its flush produced; no mutation and no get happens while the store is not
\* open.
C9_Removal ==
    \A g \in DOMAIN leaf_files :
        (phase = "opening" /\ g \notin DOMAIN leaf_files')
            => /\ table_id \in DOMAIN filters' /\ table_id \in DOMAIN indexes'
               /\ table_id \notin DOMAIN filters
               /\ table_files'[table_id]
                    = flush_with_file(leaf_files[g], table_id).info.records

C9_Served ==
    (ops' # ops \/ (got' # got /\ got' # NoGot))
        => (phase = "open" /\ leaf_files = EmptyMap /\ pending = {})

C9_StartupFlush ==
    /\ [](phase = "open" => leaf_files = EmptyMap)
    /\ [][C9_Removal /\ C9_Served]_vars

\* C9 witness: an open has returned after flushing the two leaf files that a
\* failed flush cycle and the close left behind, and a get has been served
C9_Witness ==
    /\ phase = "open" /\ reopens > 0 /\ faults > 0 /\ corrupt = <<>>
    /\ Cardinality(DOMAIN filters) >= 2
    /\ leaf_files = EmptyMap /\ got.k # 0

\* C10: after flush or register has failed in a flush cycle, the new tree is
\* still installed, the trees have not been switched, and the worker still
\* takes the signals sent to it.
C10_FailedFlush ==
    faults > 0 =>
        /\ new_fptree # <<>>
        /\ fptree_id = 0
        /\ worker.pc \in {"recv", "exited"}

\* C11: the worker thread ends only by taking the Shutdown signal, after it
\* has completed every signal sent before it: a worker that has ended has
\* exited on Shutdown, with an empty channel and no flush cycle left open.
C11_ShutdownOrdering ==
    worker.pc \in {"exited", "dead"} =>
        /\ worker.pc = "exited"
        /\ phase = "closing"
        /\ chan = <<>>
        /\ new_fptree = <<>>

\* the smallest even number above every table id on disk
FirstFreeEven ==
    SetMin({ n \in 0..(SetMax(DOMAIN table_files \cup {0}) + 2) :
               n % 2 = 0 /\ \A t \in DOMAIN table_files : t < n })

\* a step that creates a table file uses the id of the flush writer, which
\* names no file yet, and moves the flush writer two ids on
C12_Fresh ==
    table_files' # table_files =>
        /\ table_id \notin DOMAIN table_files
        /\ DOMAIN table_files' = DOMAIN table_files \cup {table_id}
        /\ \A t \in DOMAIN table_files : table_files'[t] = table_files[t]
        /\ table_id' = table_id + 2

\* an open starts the flush writer at the first free even id
C12_Reopen ==
    (phase = "closed" /\ phase' = "opening") => table_id' = FirstFreeEven

\* C12: the table ids are even, a flush uses the id two above the one of the
\* flush before it, an open starts from the smallest even id above every
\* table id on disk (0 when there is none), and no id is used twice.
C12_TableIds ==
    /\ [](/\ table_id % 2 = 0
          /\ \A t \in DOMAIN table_files : t % 2 = 0 /\ t < table_id
          /\ table_id = FirstFreeEven)
    /\ [][C12_Fresh /\ C12_Reopen]_vars

\* C12 witness: after a reopen the startup flush has written the table that
\* follows the tables of the first run
C12_Witness ==
    /\ phase = "open" /\ reopens > 0
    /\ Cardinality(DOMAIN table_files) >= 2
    /\ table_id >= 4

Frozen == worker.pc \in {"flush", "register", "index", "switch"}

C14_NoWrite ==
    Frozen => (fptree' = fptree \/ (worker.pc = "switch" /\ fptree' = new_fptree))

C14_LateWrite ==
    \A t \in Threads :
        (Frozen /\ thr[t].pc = "put" /\ thr'[t].pc # "put") =>
            new_fptree' = << FPTreePut(new_fptree[1], thr[t].k, thr[t].v) >>

\* C14: while the current tree is frozen no put or delete modifies it, every
\* put or delete in progress in that window writes to the new tree, and none
\* that selected the current tree is still in progress
C14_FrozenTree ==
    /\ [](Frozen => /\ new_fptree # <<>>
                    /\ \A t \in Threads : thr[t].pc = "put" => thr[t].tree = "new")
    /\ [][C14_NoWrite /\ C14_LateWrite]_vars

\* a put or a delete has written to the new tree while the current tree is
\* frozen, and the flush has gone as far as the switch
C14_Witness ==
    /\ worker.pc = "switch"
    /\ \E k \in Keys : FPTreeGet(new_fptree[1], k) # NoValue

C15_Start ==
    (worker.pc = "recv" /\ worker'.pc = "flush") =>
        /\ new_fptree = <<>>
        /\ fptree[1].root_split_count >= root_split_threshold
        /\ new_fptree' # <<>>

\* the tables written so far: one per retired tree, and one more once the
\* flush of the frozen tree has made its table
C15_Tables ==
    Cardinality(DOMAIN table_files) =
        fptree_id + (IF worker.pc \in {"register", "index", "switch"} THEN 1 ELSE 0)

C16_BusyStep ==
    /\ worker.pc = "recv" /\ worker'.pc = "recv"
    /\ new_fptree = <<>> /\ new_fptree' # <<>>

\* C16: no step installs the new tree and returns None, and the strong count
\* is 1 whenever the new tree is installed (no put or delete is inside the
\* manager while prepare_flush holds the write lock of new_fptree_ptr)
C16_NoBusyWriters ==
    [][/\ ~C16_BusyStep
       /\ (new_fptree = <<>> /\ new_fptree' # <<>>) => strong_count = 1]_vars

\* the ids of the tables that are on disk with their info and installed in
\* the table manager
Registered == DOMAIN table_files \cap DOMAIN meta_files \cap DOMAIN filters
              \cap DOMAIN indexes

\* the step of switch_fptree: the table of the retired tree is registered and
\* holds every pair of the tree
C17_Switch ==
    fptree_id' # fptree_id =>
        /\ worker.info # <<>> /\ worker.info[1].id \in Registered
        /\ \A k \in Keys :
              TreeRecords(fptree[1], k) \subseteq TableRecords(worker.info[1].id, k)

\* C17: switch_fptree retires a tree only after its table holds every pair of
\* the tree and is registered; at every point the value of the last put of a
\* key is in the leaf file of a tree of the manager or in a registered table
C17_Durability ==
    /\ [](\A k \in Keys :
            last[k] # 0 =>
                \/ last[k] \in TreeRecords(fptree[1], k) \cup NewTreeRecords(k)
                \/ \E t \in Registered : last[k] \in TableRecords(t, k))
    /\ [][C17_Switch]_vars

\* the leaves of a tree whose in-memory header an insert has changed, and
\* whose committed header differs from it
StaleLeaves(T) ==
    { n \in 1..Len(T.nodes) :
        /\ T.nodes[n].is_leaf
        /\ T.nodes[n].header # LeafHeaderNew
        /\ PageHeader(T, T.nodes[n].id) # T.nodes[n].header }

\* C18: between two operations, the committed header of every leaf an insert
\* has changed equals the in-memory header of the leaf
C18_CommittedHeader ==
    phase = "open" =>
        /\ StaleLeaves(fptree[1]) = {}
        /\ new_fptree # <<>> => StaleLeaves(new_fptree[1]) = {}

Range(seq) == { seq[i] : i \in 1..Len(seq) }

\* what C19 says of the put of key into tree T that gives T2, with L the
\* nodes the put keeps write-locked after phase 1 and path its path
C19_Locks(T, T2, L, path) ==
    /\ L.nodes = SubSeq(path, Len(path) - Len(L.nodes) + 1, Len(path))
    /\ L.is_root_locked <=> \A i \in 1..Len(path) : may_need_split(T, path[i])
    /\ L.is_root_locked => L.nodes = path
    /\ ~L.is_root_locked =>
          /\ ~may_need_split(T, L.nodes[1])
          /\ \A i \in 2..Len(L.nodes) : may_need_split(T, L.nodes[i])
    /\ \A n \in 1..Len(T.nodes) : T2.nodes[n] # T.nodes[n] => n \in Range(L.nodes)
    /\ T2.root # T.root => L.is_root_locked
    /\ \A n \in 1..Len(T2.nodes) :
          n # T2.root => \E q \in 1..Len(T2.nodes) : n \in Range(T2.nodes[q].children)

C19_Step ==
    \A k \in TreeKeys, v \in {0, ver + 1} :
        fptree' = << FPTreePut(fptree[1], k, v) >> =>
            C19_Locks(fptree[1], fptree'[1], locked_nodes(fptree[1], k),
                      PathFrom(fptree[1], fptree[1].root, k))

\* C19: a put keeps write-locked the path from its deepest node that cannot
\* split down to the leaf, or the whole path and the root pointer when every
\* node may split; it changes no node outside these, replaces the root only
\* with the root pointer locked, and leaves no split node without a parent
C19_LockCoupling == [][C19_Step]_vars

\* the tree has grown by two root splits, and both kinds of put are possible:
\* one that keeps an inner node and a leaf locked without the root pointer,
\* and one that keeps the whole path and the root pointer
C19_Witness ==
    /\ fptree[1].root_split_count >= 2
    /\ \E k \in TreeKeys :
          /\ ~locked_nodes(fptree[1], k).is_root_locked
          /\ Len(locked_nodes(fptree[1], k).nodes) >= 2
    /\ \E k \in TreeKeys : locked_nodes(fptree[1], k).is_root_locked

\* the keys of the records in the set slots of the leaves below node n
RECURSIVE SubtreeKeys(_, _)
SubtreeKeys(T, n) ==
    IF T.nodes[n].is_leaf
    THEN { get_kv_pairs(T, n)[i].k : i \in 1..Cardinality(T.nodes[n].header.bitmap) }
    ELSE UNION { SubtreeKeys(T, c) : c \in Range(T.nodes[n].children) }

C20_Step ==
    LET T == fptree[1]
        T2 == fptree'[1]
    IN  IF T2.root # T.root
        THEN /\ ~T2.nodes[T2.root].is_leaf
             /\ T2.nodes[T2.root].is_root
             /\ Len(T2.nodes[T2.root].keys) = 1
             /\ T2.nodes[T2.root].children = << T.root, T2.nodes[T.root].next >>
             /\ T2.nodes[T.root].next # NoNode
             /\ \A x \in SubtreeKeys(T2, T.root) : x < T2.nodes[T2.root].keys[1]
             /\ \A x \in SubtreeKeys(T2, T2.nodes[T.root].next) :
                   T2.nodes[T2.root].keys[1] <= x
             /\ T.nodes[T.root].is_root /\ ~T2.nodes[T.root].is_root
             /\ T2.root_split_count = T.root_split_count + 1
        ELSE T2.root_split_count = T.root_split_count

\* C20: a root split publishes a new inner root whose single key separates
\* its two children, the old root and the old root's new sibling, clears the
\* old root's flag and adds 1 to root_split_count; at every point exactly one
\* node has the root flag and it is the node the root pointer refers to
C20_RootSplit ==
    /\ []({ n \in 1..Len(fptree[1].nodes) : fptree[1].nodes[n].is_root }
            = { fptree[1].root })
    /\ [][C20_Step]_vars

\* the root has been replaced twice: once above a leaf, once above an inner node
C20_Witness ==
    /\ fptree[1].root_split_count = 2
    /\ ~fptree[1].nodes[fptree[1].root].is_leaf
    /\ ~fptree[1].nodes[fptree[1].nodes[fptree[1].root].children[1]].is_leaf

\* the step of switch_fptree: the worker leaves "switch"
C21_Step ==
    (worker.pc = "switch" /\ worker'.pc # "switch") =>
        /\ new_fptree # <<>>
        /\ fptree' = new_fptree
        /\ new_fptree' = <<>>
        /\ fptree_id' = fptree_id + 1
        /\ fptree_id \notin DOMAIN leaf_files'
        /\ InManager = {} /\ thr' = thr

LeafPairs(T, n) ==
    { [k |-> p.k, v |-> p.v] : p \in Range(get_kv_pairs(T, n)) }

\* what C22 says of the split S of leaf n of tree T
C22_Split(T, n, S) ==
    LET cnt == Cardinality(T.nodes[n].header.bitmap)
        P == LeafPairs(T, n)
        m == S.t.nodes[n].next
    IN  /\ m = Len(T.nodes) + 1 /\ Len(S.t.nodes) = m
        /\ S.t.nodes[m].is_leaf
        /\ S.t.nodes[m].id \notin T.header_mmap
        /\ S.t.nodes[m].id # T.nodes[n].id
        /\ \E p \in P : p.k = S.split_key
        /\ Cardinality({ p \in P : p.k < S.split_key }) = cnt \div 2
        /\ Cardinality(S.t.nodes[n].header.bitmap) = cnt \div 2
        /\ Cardinality(S.t.nodes[m].header.bitmap) = cnt - cnt \div 2
        /\ LeafPairs(S.t, n) = { p \in P : p.k < S.split_key }
        /\ LeafPairs(S.t, m) = { p \in P : p.k >= S.split_key }
        /\ LeafPairs(S.t, n) \cup LeafPairs(S.t, m) = P
        /\ S.t.nodes[n].header.next = S.t.nodes[m].id
        /\ S.t.nodes[m].next = T.nodes[n].next
        /\ S.t.nodes[m].header.next = T.nodes[n].header.next
        /\ \A q \in 1..Len(T.nodes) :
              q # n => S.t.nodes[q] = T.nodes[q]

\* the leaf a put of key k reaches, once Leaf::insert has invalidated the old
\* record of k and reclaimed the page
C22_Leaf(k) == PathFrom(fptree[1], fptree[1].root, k)[Len(PathFrom(fptree[1], fptree[1].root, k))]

C22_Prepared(k) == LeafPrepare(fptree[1], C22_Leaf(k), k)

\* C22: Leaf::split moves the pairs at the sorted positions from floor(n/2)
\* on to a newly allocated leaf and returns the key at position floor(n/2);
\* the keys left are below the split key, the keys moved are at or above it,
\* the two leaves together hold the pairs the leaf held, and the new leaf
\* stands between the leaf and its former next, in memory and in header.next.
\* Stated for every leaf on which an insert calls split.
C22_SplitPartition ==
    \A k \in TreeKeys :
        need_split(C22_Prepared(k).nodes[C22_Leaf(k)].header) =>
            C22_Split(C22_Prepared(k), C22_Leaf(k),
                      LeafSplit(C22_Prepared(k), C22_Leaf(k)))

\* a leaf that has a next leaf is about to split, its pairs out of key order
\* in the slots
C22_Witness ==
    \E k \in TreeKeys :
        /\ need_split(C22_Prepared(k).nodes[C22_Leaf(k)].header)
        /\ C22_Prepared(k).nodes[C22_Leaf(k)].next # NoNode
        /\ get_kv_pairs(C22_Prepared(k), C22_Leaf(k))[1].k
              > get_kv_pairs(C22_Prepared(k), C22_Leaf(k))[2].k

InnerNodes(T) == { n \in 1..Len(T.nodes) : ~T.nodes[n].is_leaf }

LeafNodes(T) == { n \in 1..Len(T.nodes) : T.nodes[n].is_leaf }

\* every key below child i of an inner node is at or above keys[i-1] and
\* below keys[i]
C23_Separators(T) ==
    \A n \in InnerNodes(T) :
        /\ Len(T.nodes[n].children) = Len(T.nodes[n].keys) + 1
        /\ \A i \in 1..Len(T.nodes[n].children) :
              \A x \in SubtreeKeys(T, T.nodes[n].children[i]) :
                  /\ i > 1 => T.nodes[n].keys[i - 1] <= x
                  /\ i <= Len(T.nodes[n].keys) => x < T.nodes[n].keys[i]

\* the descent by get_child for a stored key ends at the leaf that stores it
C23_Routes(T) ==
    \A n \in LeafNodes(T) :
        \A x \in SubtreeKeys(T, n) :
            PathFrom(T, T.root, x)[Len(PathFrom(T, T.root, x))] = n

\* C23: between two operations on a tree, every key stored below child i of
\* an inner node is at or above keys[i-1] and below keys[i], so that the
\* descent by get_child for a key ends at the only leaf that can hold it
C23_SeparatorRange ==
    /\ C23_Separators(fptree[1])
    /\ C23_Routes(fptree[1])

\* a tree of three levels in which a key equal to a separator is stored and
\* another leaf stores a tombstone
C23_Witness ==
    /\ fptree[1].root_split_count = 2
    /\ \E n \in InnerNodes(fptree[1]) :
          \E i \in 1..Len(fptree[1].nodes[n].keys) :
              fptree[1].nodes[n].keys[i] \in SubtreeKeys(fptree[1], fptree[1].root)
    /\ \E k \in TreeKeys : FPTreeGet(fptree[1], k) = 0

\* the leaves met by following the in-memory next pointers from leaf n
RECURSIVE NextChain(_, _, _)
NextChain(T, n, seen) ==
    IF n = NoNode \/ n \in Range(seen)
    THEN seen
    ELSE NextChain(T, T.nodes[n].next, Append(seen, n))

\* header.next of every leaf names the page of the leaf its next points to
C24_HeaderNext(T) ==
    \A n \in LeafNodes(T) :
        T.nodes[n].header.next =
            IF T.nodes[n].next = NoNode
            THEN INVALID_LEAF_ID
            ELSE T.nodes[T.nodes[n].next].id

C24_Sorted(T, chain) ==
    /\ Range(chain) = LeafNodes(T)
    /\ \A n \in LeafNodes(T) :
          Cardinality(SubtreeKeys(T, n)) = Cardinality(T.nodes[n].header.bitmap)
    /\ \A i \in 1..Len(chain) : \A j \in (i + 1)..Len(chain) :
          \A x \in SubtreeKeys(T, chain[i]) : \A y \in SubtreeKeys(T, chain[j]) :
              x < y

\* C24: between two operations on a tree, the next pointers from the head
\* leaf visit every leaf, every key of a leaf is below every key of each
\* later leaf, and no key is stored twice; header.next names the same leaf
\* as the in-memory next
C24_ChainOrder ==
    /\ C24_Sorted(fptree[1], NextChain(fptree[1], 1, <<>>))
    /\ C24_HeaderNext(fptree[1])

\* the (key, value) pairs in the set slots of all the leaves of a tree
TreePairs(T) == UNION { LeafPairs(T, n) : n \in LeafNodes(T) }

\* what C25 says of the records of the table written for the frozen tree T
C25_Table(T, records) ==
    /\ Range(records) = TreePairs(T)
    /\ \A i \in 1..Len(records) : \A j \in (i + 1)..Len(records) :
          records[i].k < records[j].k

\* what C25 says of the registered filter and sparse index of a table
C25_Info(records, filter, ix) ==
    /\ \A i \in 1..Len(records) : records[i].k \in filter
    /\ \A key \in DOMAIN ix.index :
          \E i \in 1..Len(records) :
              /\ records[i].k = key
              /\ ix.index[key] = OffsetOf(records, i)

\* the step of a put of key k that writes a table
C25_Step ==
    \A k \in Keys :
        (/\ phase = "open" /\ ver' = ver + 1 /\ last'[k] = ver + 1
         /\ table_id \notin DOMAIN table_files
         /\ table_id \in DOMAIN table_files') =>
            /\ C25_Table(ManagerPut(fptree, new_fptree, k, ver + 1).cur[1],
                         table_files'[table_id])
            /\ table_id \in DOMAIN filters' =>
                  C25_Info(table_files'[table_id], filters'[table_id],
                           indexes'[table_id])

\* C25: the table a flush writes holds exactly the pairs of the set slots of
\* the leaves of the frozen tree, tombstones included, each key once and in
\* ascending key order; every offset of its sparse index is the sum of the
\* sizes of the records written before the key, and its filter holds every
\* key written
C25_FlushOutput == [][C25_Step]_vars

\* the keys a get may look up: the keys written and a key below them all
LookupKeys == 0..NumKeys

\* C26: for the sparse index of every registered table and every key the
\* filter of the table may accept (a false positive accepts any key), get
\* returns the offset recorded for the greatest indexed key at or below the
\* key, and never fails for lack of such an entry
C26_IndexTotal ==
    phase = "open" =>
        \A tid \in DOMAIN indexes : \A key \in LookupKeys :
            /\ SparseIndexGet(indexes[tid], key) # Panic
            /\ \E k \in DOMAIN indexes[tid].index :
                  /\ k <= key
                  /\ \A k2 \in DOMAIN indexes[tid].index : k2 <= key => k2 <= k
                  /\ SparseIndexGet(indexes[tid], key) = indexes[tid].index[k]

\* what C27 says of the manager state R recovered from the leaf file F
C27_Pages(F, R) ==
    /\ \A id \in 0..(F.npages - 1) :
          /\ id \in R.header_mmap <=>
                (PageHeader(F, id).magic = HEADER_MAGIC /\ PageHeader(F, id).crc_ok)
          /\ id \in R.header_mmap <=> id \notin Range(R.free_leaves)
    /\ R.header_mmap \cup Range(R.free_leaves) = 0..(F.npages - 1)
    /\ Len(R.free_leaves) = Cardinality(Range(R.free_leaves))

\* C27: opening a leaf file of N pages puts every page id of 0..N-1 in the
\* header map when its magic is HEADER_MAGIC and its header CRC verifies,
\* and in the free list otherwise: never in both, never in neither
C27_Recovery ==
    phase \in {"closed", "opening"} =>
        \A g \in DOMAIN leaf_files :
            C27_Pages(leaf_files[g], recover_state(leaf_files[g]))

\* a closed store with a leaf file that has a page with a good header, a
\* page whose header CRC fails and a page that never had a header
C27_Witness ==
    /\ phase = "closed"
    /\ \E g \in DOMAIN leaf_files :
          /\ \E id \in DOMAIN leaf_files[g].hdr :
                /\ leaf_files[g].hdr[id].magic = HEADER_MAGIC
                /\ ~leaf_files[g].hdr[id].crc_ok
          /\ recover_state(leaf_files[g]).header_mmap # {}
          /\ \E id \in 0..(leaf_files[g].npages - 1) :
                PageHeader(leaf_files[g], id) = ZeroHeader

\* the step of SstableManager::new within KVS::new
C28_Step ==
    (phase = "closed" /\ phase' # "closed") =>
        /\ phase' = "opening"
        /\ filters' = [ t \in { u \in DOMAIN meta_files : meta_files[u].filter_ok }
                          |-> meta_files[t].filter ]
        /\ indexes' = [ t \in { u \in DOMAIN meta_files : meta_files[u].index_ok }
                          |-> meta_files[t].index ]

\* C28: the replay of the persisted table metadata at startup skips a record
\* whose CRC does not verify and loads every other record; the open goes on
C28_SkipBadRecords == [][C28_Step]_vars

\* what C29 says of the result A of allocate_ext_page(T, id), without the
\* walk that follows
C29_Append(T, id, A) ==
    /\ A.st = "ok"
    /\ A.id \notin T.header_mmap
    /\ A.id \in A.t.header_mmap
    /\ \E last_id \in T.header_mmap :
          /\ get_ext(get_header(T, last_id)) < 0
          /\ get_header(A.t, last_id) = [ get_header(T, last_id) EXCEPT !.ext = A.id ]
          /\ \A q \in 0..(A.t.npages - 1) :
                q # last_id => get_header(A.t, q) = get_header(T, q)

\* a leaf with a committed header is inside the write loop of an insert and
\* write_data has returned None: allocate_ext_page is called
C29_Called ==
    /\ xl.pc = "write"
    /\ xl.leaf.id \in DOMAIN xl.t.hdr
    /\ ~write_data_sized(xl.t, xl.leaf.cur, xl.leaf.header.tail_offset,
                         [ k |-> xl.key, v |-> xl.val, len |-> xl.len ]).some

\* C29: allocate_ext_page on a leaf with a committed header ends, hands out a
\* page that was not live, sets ext of the last page of the chain to the new
\* id in its committed header and changes no other header and no next field;
\* the walk along ext from the leaf then ends at the new page
C29_ExtAppend ==
    C29_Called =>
        /\ C29_Append(xl.t, xl.leaf.id, allocate_ext_page(xl.t, xl.leaf.id))
        /\ ExtTail(allocate_ext_page(xl.t, xl.leaf.id).t, xl.leaf.id, {xl.leaf.id})
              = allocate_ext_page(xl.t, xl.leaf.id).id

\* the set slots of the tree, as <<leaf, slot>>, whose record has the key
TreeKeySlots(T, key) ==
    { x \in LeafNodes(T) \X Slots : x[2] \in KeySlots(T, x[1], key) }

\* what C30 says of the tree T2 that the insert of (key, value) makes of T
C30_Insert(T, T2, key, value) ==
    /\ Cardinality(TreeKeySlots(T2, key)) = 1
    /\ \A x \in TreeKeySlots(T2, key) :
          LET h == T2.nodes[x[1]].header
          IN  /\ h.fingerprints[x[2]] = calc_key_hash(key)
              /\ LeafGet(T2, x[1], key) = value
              /\ \A s \in Slots : s < x[2] => is_slot_set(h, s)
              /\ h.kv_info[x[2]].offset + 1 = h.tail_offset
              /\ h.kv_info[x[2]].offset >= INITIAL_TAIL_OFFSET
    /\ FPTreeGet(T2, key) = value
    /\ \A k2 \in TreeKeys \ {key} : FPTreeGet(T2, k2) = FPTreeGet(T, k2)

C30_Step ==
    \A k \in TreeKeys, v \in {0, ver + 1} :
        fptree' = << FPTreePut(fptree[1], k, v) >> =>
            C30_Insert(fptree[1], fptree'[1], k, v)

\* C30: after an insert of (k, v) exactly one set slot of the tree holds k,
\* with the fingerprint of k, and a get of k returns v (the empty value for
\* a tombstone); a get of any other key returns what it returned before; the
\* slot is the lowest clear slot of its leaf and its kv_info has the tail
\* offset the leaf had before the write
C30_InsertReplaces == [][C30_Step]_vars

\* a key has been written again, next to another key with the same
\* fingerprint in the same leaf: its old record is still in the page data
\* and no set slot refers to it
C30_Witness ==
    \E k \in TreeKeys : \E x \in TreeKeySlots(fptree[1], k) :
        /\ \E q \in DOMAIN fptree[1].data :
              /\ fptree[1].data[q].k = k
              /\ fptree[1].data[q].v # LeafGet(fptree[1], x[1], k)
        /\ \E s \in Slots \ {x[2]} :
              /\ is_slot_set(fptree[1].nodes[x[1]].header, s)
              /\ fptree[1].nodes[x[1]].header.fingerprints[s] = calc_key_hash(k)

\* the inner nodes of T that a put giving T2 has split
SplitInners(T, T2) ==
    { n \in InnerNodes(T) : T2.nodes[n].next # T.nodes[n].next }

\* what C31 says of inner node n of T, split by the put that gives T2
C31_Split(T, T2, n) ==
    LET m == T2.nodes[n].next
        at == (FANOUT + 1) \div 2
        left == T2.nodes[n]
        right == T2.nodes[m]
    IN  /\ m > Len(T.nodes) /\ ~right.is_leaf
        /\ Len(T.nodes[n].keys) = FANOUT
        /\ Len(left.keys) = at
        /\ Len(left.children) = at + 1
        /\ Len(right.keys) = FANOUT - at
        /\ Len(right.children) = Len(right.keys) + 1
        /\ \E sk \in TreeKeys :
              /\ sk \notin Range(left.keys) \cup Range(right.keys)
              /\ \E i \in 1..(FANOUT + 1) :
                    /\ (left.keys \o << sk >> \o right.keys)[i] \notin Range(T.nodes[n].keys)
                    /\ left.keys \o << sk >> \o right.keys
                          = InsertAt(T.nodes[n].keys, i,
                                     (left.keys \o << sk >> \o right.keys)[i])
              /\ \E q \in InnerNodes(T2) \ {n, m} : sk \in Range(T2.nodes[q].keys)
        /\ \E i \in 1..(FANOUT + 2) :
              /\ (left.children \o right.children)[i] \notin Range(T.nodes[n].children)
              /\ left.children \o right.children
                    = InsertAt(T.nodes[n].children, i,
                               (left.children \o right.children)[i])
        /\ right.next = T.nodes[n].next

C31_Step ==
    \A n \in SplitInners(fptree[1], fptree'[1]) :
        C31_Split(fptree[1], fptree'[1], n)

C32_Shape(T) ==
    \A n \in InnerNodes(T) :
        /\ \A i \in 1..(Len(T.nodes[n].keys) - 1) :
              T.nodes[n].keys[i] < T.nodes[n].keys[i + 1]
        /\ Len(T.nodes[n].children) = Len(T.nodes[n].keys) + 1
        /\ Len(T.nodes[n].keys) <= FANOUT

\* keys and children are what Inner::insert has made of the keys and
\* children of node n of T during the put of key: one new key at its sort
\* position p, and at position p + 1 the next of the child that routes key
C32_Placed(T, T2, n, key, keys, children) ==
    \E p \in 1..Len(keys) :
        /\ keys[p] \notin Range(T.nodes[n].keys)
        /\ keys = InsertAt(T.nodes[n].keys, p, keys[p])
        /\ \A i \in 1..(Len(keys) - 1) : keys[i] < keys[i + 1]
        /\ children = InsertAt(T.nodes[n].children, p + 1, children[p + 1])
        /\ children[p + 1] = T2.nodes[get_child(T, n, key)].next
        /\ children[p] = get_child(T, n, key)

\* what C32 says of inner node n of T when the put of key has changed it
C32_Insert(T, T2, n, key) ==
    IF n \in SplitInners(T, T2)
    THEN \E sk \in TreeKeys :
            C32_Placed(T, T2, n, key,
                       T2.nodes[n].keys \o << sk >> \o T2.nodes[T2.nodes[n].next].keys,
                       T2.nodes[n].children \o T2.nodes[T2.nodes[n].next].children)
    ELSE C32_Placed(T, T2, n, key, T2.nodes[n].keys, T2.nodes[n].children)

C32_Step ==
    \A k \in TreeKeys, v \in {0, ver + 1} :
        fptree' = << FPTreePut(fptree[1], k, v) >> =>
            \A n \in InnerNodes(fptree[1]) :
                (fptree'[1].nodes[n].keys # fptree[1].nodes[n].keys
                 \/ fptree'[1].nodes[n].children # fptree[1].nodes[n].children
                 \/ n \in SplitInners(fptree[1], fptree'[1])) =>
                    C32_Insert(fptree[1], fptree'[1], n, k)

C33_Pages(T) ==
    /\ Range(T.free_leaves) \cap T.header_mmap = {}
    /\ Len(T.free_leaves) = Cardinality(Range(T.free_leaves))
    /\ Range(T.free_leaves) \cup T.header_mmap \subseteq 0..(T.npages - 1)
    /\ T.npages % NUM_ALLOCATION = 0

\* what C33 says of the page id and the manager A that an allocation gives
\* on manager T
C33_Allocated(T, A) ==
    /\ A.id \notin T.header_mmap
    /\ A.id \in A.t.header_mmap
    /\ A.id \notin Range(A.t.free_leaves)
    /\ A.t.npages = IF T.free_leaves = <<>> THEN T.npages + NUM_ALLOCATION
                                             ELSE T.npages
    /\ A.id = IF T.free_leaves = <<>> THEN T.npages ELSE Head(T.free_leaves)
    /\ C33_Pages(A.t)

\* C33: the free list of a leaf manager has no duplicates and no live page;
\* allocate_leaf and allocate_ext_page hand out a page that is not live, the
\* file grows by NUM_ALLOCATION pages and only when the free list is empty,
\* and the first allocation in a new file gives page 0 with a fresh header
C33_PageAllocation ==
    /\ C33_Pages(fptree[1])
    /\ C33_Allocated(fptree[1], allocate_leaf(fptree[1]))
    /\ C33_Allocated(fptree[1],
                     allocate_ext_page(fptree[1], fptree[1].nodes[1].id))
    /\ FPTreeNew(0).nodes[1].id = 0
    /\ FPTreeNew(0).nodes[1].header.next = INVALID_LEAF_ID
    /\ FPTreeNew(0).nodes[1].header.ext = INVALID_LEAF_ID
    /\ FPTreeNew(0).nodes[1].header.bitmap = {}
    /\ FPTreeNew(0).npages = NUM_ALLOCATION

\* the file has grown twice and a page that a reclaim has freed is on the
\* free list, to be handed out again
C33_Witness ==
    /\ fptree[1].npages >= 2 * NUM_ALLOCATION
    /\ \E i \in 1..Len(fptree[1].free_leaves) :
          \E id \in fptree[1].header_mmap : fptree[1].free_leaves[i] < id
    /\ \E n \in LeafNodes(fptree[1]) :
          \E i \in 1..Len(fptree[1].free_leaves) :
              fptree[1].nodes[n].header.next = fptree[1].free_leaves[i]

\* the units of the leaf file a record of rec.len units written at the
\* offset of the page covers, as positions from the start of the file
C34_Positions(id, offset, rec) ==
    { id * ExtLeafSize + offset + i : i \in 0..(rec.len - 1) }

\* byte strings of keys (1 or 2 bytes) and values (0 to 2 bytes)
C34_Bytes == {0, 255}
C34_Strings(lo, hi) ==
    UNION { [1..n -> C34_Bytes] : n \in lo..hi }

\* the bytes read_data maps are the bytes write_data copied, of the size
\* get_data_size gives, and decode to the key and the value
C34_RoundTrip(key, value) ==
    LET data == format_data_with_crc(key, value)
    IN  /\ Len(data) = get_data_size(Len(key), Len(value))
        /\ read_data_bytes(data, Len(key), Len(value))
             = [ st |-> "ok", key |-> key, value |-> value ]

C34_Write(T, id, offset, rec) ==
    LET W == write_data_sized(T, id, offset, rec)
    IN  IF offset + rec.len > END_TAIL_OFFSET
        THEN ~W.some /\ W.t = T
        ELSE /\ W.some
             /\ W.tail = offset + rec.len
             /\ DOMAIN W.t.data = DOMAIN T.data \cup {<<id, offset>>}
             /\ \A q \in DOMAIN T.data \ {<<id, offset>>} :
                    W.t.data[q] = T.data[q]
             /\ W.t.hdr = T.hdr
             /\ \A pos \in C34_Positions(id, offset, rec) :
                    /\ pos \div ExtLeafSize = id
                    /\ pos % ExtLeafSize >= INITIAL_TAIL_OFFSET
             /\ read_data(W.t, id, offset) = rec

\* C34: write_data returns None and writes nothing when the offset plus the
\* rounded-up size of the pair is greater than END_TAIL_OFFSET; otherwise it
\* writes the pair at the offset of the page and returns the offset plus
\* the rounded-up size, touches no unit of another page and not the header
\* unit of its page, changes no other record and no header, and read_data
\* at the same page and offset returns the written key and value, the
\* empty value for a tombstone.
C34_WriteBounds ==
    /\ \A id \in xl.t.header_mmap :
          \A offset \in INITIAL_TAIL_OFFSET..ExtLeafSize :
              \A k \in Keys, v \in 0..1, n \in UnitSizes :
                  C34_Write(xl.t, id, offset, [ k |-> k, v |-> v, len |-> n ])
    /\ \A k \in Keys, v \in 0..1 :
          C34_RoundTrip(<<k>>, IF v = 0 THEN <<>> ELSE <<v>>)
    /\ \A key \in C34_Strings(1, 2), value \in C34_Strings(0, 2) :
          C34_RoundTrip(key, value)

\* an insert has been refused by a full first page and has written on the
\* extension page up to END_TAIL_OFFSET
C34_Witness ==
    /\ xl.pc = "idle"
    /\ xl.leaf.cur # xl.leaf.id
    /\ xl.leaf.header.tail_offset = END_TAIL_OFFSET
    /\ \E q \in DOMAIN xl.t.data : q[1] = xl.leaf.cur

\* the records of a table have strictly ascending keys
C35_Ascending(records) ==
    \A i \in 1..Len(records) : \A j \in (i + 1)..Len(records) :
        records[i].k < records[j].k

C35_Index(records, ix) ==
    /\ records # <<>> =>
          /\ records[1].k \in DOMAIN ix.index
          /\ ix.index[records[1].k] = 0
    /\ \A k1 \in DOMAIN ix.index, k2 \in DOMAIN ix.index :
          k1 < k2 => ix.index[k1] < ix.index[k2]
    /\ \A k2 \in DOMAIN ix.index :
          LET below == { k \in DOMAIN ix.index : k < k2 }
          IN  below # {} =>
                 ix.index[k2] - ix.index[SetMax(below)] >= LEAST_OFFSET

\* C35: in the sparse index of a table whose keys were inserted in
\* ascending order, the first key of the table is retained, retained keys
\* and their offsets are in the same order, and every retained entry but
\* the first lies at least LEAST_OFFSET bytes after the entry retained
\* before it.
C35_IndexMonotone ==
    \A t \in DOMAIN indexes :
        (t \in DOMAIN table_files /\ C35_Ascending(table_files[t]))
            => C35_Index(table_files[t], indexes[t])

\* a registered table with ascending keys whose index retains two entries
\* and skips a key between them
C35_Witness ==
    \E t \in DOMAIN indexes :
        /\ t \in DOMAIN table_files
        /\ C35_Ascending(table_files[t])
        /\ Len(table_files[t]) >= 3
        /\ Cardinality(DOMAIN indexes[t].index) = 2

\* a turn of the startup loop that writes a table for leaf file g takes the
\* lowest generation still waiting
C36_Step ==
    \A g \in pending :
        (/\ phase = "opening"
         /\ g \in DOMAIN leaf_files /\ g \notin DOMAIN leaf_files'
         /\ table_id \in DOMAIN table_files'
         /\ table_id' = table_id + 2) =>
            \A g2 \in pending : g <= g2

\* C36: when startup recovery flushes more than one leaf file, the tables
\* it creates receive table ids increasing in generation order, whatever
\* the order in which the directory listing returns the files.
C36_GenerationOrder == [][C36_Step]_vars

\* C38: a store that is opened, closed with no put or delete, and opened
\* again opens: the startup flush of the leaf file whose head header was
\* never committed ends without failure, and afterwards the get of any key
\* returns None.
C38_ReopenUnwritten ==
    (ops = 0 /\ faults = 0) =>
        /\ phase \in {"open", "closed", "opening"}
        /\ got.k # 0 => got.r = NoValue

RECURSIVE C40_Below(_, _)
C40_Below(T, n) ==
    IF T.nodes[n].is_leaf
    THEN {n}
    ELSE UNION { C40_Below(T, T.nodes[n].children[i]) :
                   i \in 1..Len(T.nodes[n].children) }

\* the pages of the leaves reachable from the root
C40_TreePages(T) == { T.nodes[n].id : n \in C40_Below(T, T.root) }

\* the keys a get can return: the live pairs of the leaves below the root
C40_TreeKeys(T) ==
    UNION { LeafPairs(T, n) : n \in C40_Below(T, T.root) }

C40_Agree(T) ==
    LET c == get_leaf_id_chain(T)
        f == flush(T, 0)
    IN  /\ c.st = "ok"
        /\ Range(c.chain) = C40_TreePages(T)
        /\ f.st = "ok"
        /\ Range(f.info.records) = C40_TreeKeys(T)

\* C40: between puts, the leaves reachable from the root through child
\* references are the leaves reachable from page 0 through committed next
\* pointers, so that a flush writes exactly the pairs a get can return.
C40_TreeChainAgree == C40_Agree(fptree[1])

\* thread t is inside a call and waits for a lock it cannot get
C37_Blocked(t) ==
    \/ LAt(t, "r") /\ ~LCanRead(t, Head(lk.th[t].todo).l)
    \/ LAt(t, "w") /\ ~LCanWrite(t, Head(lk.th[t].todo).l)

\* threads wait on each other: some thread is inside a call, and every
\* thread inside a call waits for a lock
C37_Deadlock ==
    /\ \E t \in Threads : lk.th[t].st = "run"
    /\ \A t \in Threads : lk.th[t].st = "run" => C37_Blocked(t)
    /\ \A t \in Threads : lk.th[t].st # "hang"

====
